---- MODULE Spec2Model ----
(***************************************************************************)
(* Model of the tiki LED sculpture firmware (src/tikiv3/tikiv3.ino): the   *)
(* ESP-NOW state synchronisation protocol, the input handling, the sleep   *)
(* controller and the animation timing of loop().                          *)
(*                                                                         *)
(* A device is a record of the sketch's global and function-static         *)
(* variables.  Every C function is an operator from a device record (and   *)
(* the values it reads from its environment) to the device record it       *)
(* leaves behind.  uint32_t values are kept modulo 2^32; because TLC's     *)
(* integers are 32 bit wide they are stored in two's complement (a value   *)
(* of 2^31 or more is stored as the value minus 2^32) and all arithmetic   *)
(* and comparisons on them go through the operators below.                 *)
(***************************************************************************)
EXTENDS Integers, Sequences, FiniteSets, TLC

VARIABLES dev, env, net, last, sched

vars == <<dev, env, net, last, sched>>

----------------------------------------------------------------------------
(* uint32_t arithmetic *)

W16 == 256 * 256

Hi(x) == (x \div W16) % W16

Lo(x) == x % W16

U32(hi, lo) == IF hi < 32768 THEN hi * W16 + lo ELSE (hi - W16) * W16 + lo

Add32(a, b) ==
  LET lo == Lo(a) + Lo(b)
      hi == (Hi(a) + Hi(b) + (lo \div W16)) % W16
  IN  U32(hi, lo % W16)

Sub32(a, b) ==
  LET lo == Lo(a) - Lo(b)
      hi == (Hi(a) - Hi(b) + (lo \div W16)) % W16
  IN  U32(hi, lo % W16)

\* a * k for a small positive k (k < 2^15)
Mul32(a, k) ==
  LET lo == Lo(a) * k
      hi == (Hi(a) * k + (lo \div W16)) % W16
  IN  U32(hi, lo % W16)

\* unsigned a / k and a % k for a small positive k (1 < k < 2^15)
DivU(a, k) ==
  LET r == Hi(a) % k
  IN  (Hi(a) \div k) * W16 + ((r * W16 + Lo(a)) \div k)

ModU(a, k) == ((Hi(a) % k) * W16 + Lo(a)) % k

LtU(a, b) == IF (a < 0) = (b < 0) THEN a < b ELSE b < 0

LeU(a, b) == a = b \/ LtU(a, b)

GtU(a, b) == LtU(b, a)

GeU(a, b) == LeU(b, a)

----------------------------------------------------------------------------
(* Program constants *)

NUM_PATTERNS == 5

SYNC_INTERVAL == 1000

BUTTON_HOLD_TIME == 2000

TOTAL_PIXELS == 36

\* fast-mode broadcast interval, loop() line 485
FAST_SYNC_INTERVAL == 100

\* length of the fast-mode window, loop() lines 490 and 513
FAST_MODE_WINDOW == 30000

\* transmission-delay allowance added on adoption, OnDataRecv line 127
ADOPT_DELAY_MS == 50

\* seconds by which a local change advances the logical clock
PROMOTE_SECONDS == 2

\* encoder changes advance the clock at most once per this many ms, line 763
ENCODER_THROTTLE_MS == 500

\* input poll period of loop(), line 467
BUTTON_POLL_MS == 50

\* automatic pattern cycling period without the input peripheral, line 554
AUTO_CYCLE_MS == 15000

\* consecutive send failures that trigger a transport reinitialisation
MAX_SEND_ERRORS == 5

\* blinkFadeBrightness_ is a float in the source; the model keeps it in
\* millionths (FadeOne is 1.0f, FadeMin is 0.1f).
FadeOne == 1000 * 1000

FadeMin == 100 * 1000

----------------------------------------------------------------------------
(* Sync message, sync_message struct *)

Msg(ts, p, b, c) == [timestamp |-> ts, pattern |-> p, brightness |-> b, colorOffset |-> c]

\* The sketch's globals and function statics right after setup() ran at
\* millis() = t: bootTime is taken at the start of setup, the timers at its
\* end (the model takes both at t).  ano and espnow are whether the input
\* peripheral and the transport came up; rb is the first random blink delay.
InitDevice(t, ano, espnow, rb) ==
  [ millis              |-> t,
    currentPattern      |-> 0,
    brightness          |-> 255,
    colorPosition       |-> 0,
    baseColorOffset     |-> 0,
    targetColorOffset   |-> 0,
    useCustomColor      |-> FALSE,
    initialColorSet     |-> FALSE,
    lastPatternChange   |-> t,
    lastButtonCheck     |-> 0,
    lastUpdate          |-> t,
    nextBlinkTime       |-> Add32(t, rb),
    isBlinking          |-> FALSE,
    blinkState          |-> 0,
    startBlinkMs_       |-> t,
    endBlinkMs_         |-> Add32(t, 300),
    blinkFadeBrightness_ |-> FadeOne,
    anoAvailable        |-> ano,
    espNowInitialized   |-> espnow,
    lastSyncTime        |-> 0,
    bootTime            |-> t,
    lastChangeTime      |-> 0,
    syncPending         |-> FALSE,
    fastSyncMode        |-> FALSE,
    buttonPressStartTime |-> 0,
    buttonLongPressInProgress |-> FALSE,
    inSleepMode         |-> FALSE,
    longPressHandled    |-> FALSE,
    lastPosition        |-> 0,
    lastEncoderUpdate   |-> 0,
    lastButtons         |-> [b \in 0..4 |-> FALSE],
    lastColorTransition |-> 0,
    lastBlinkCompletionCheck |-> 0,
    errorCount          |-> 0,
    espNowUp            |-> espnow,
    loopEnd             |-> t,
    heard               |-> [timestamp |-> 0, pattern |-> 0, brightness |-> 0, colorOffset |-> 0],
    touched             |-> 0,
    failures            |-> 0,
    streak              |-> 0,
    sink                |-> {},
    sent                |-> << >> ]

\* espNowUp is the state of the ESP-NOW stack itself (esp_now_init succeeded
\* and no esp_now_deinit since): sends succeed and the receive callback is
\* called only while it is up.
\* loopEnd is the millis() value at which the last iteration of loop() ended.
\* heard is the last message the receive callback adopted.
\* touched is the millis() value of the last iteration of loop() whose poll
\* found a press edge or an encoder change (0: none yet).
\* failures is the number of sends that failed since the last send that
\* succeeded; streak is the number that failed since the last send or
\* reinitialisation that succeeded.
\* sink and sent are the record of a handler's outputs: the pixel-sink calls
\* (strip.setPixelColor, strip.show, strip.setBrightness) and the messages
\* handed to esp_now_send while the current handler ran.
Clear(d) == [d EXCEPT !.sink = {}, !.sent = << >>]

SinkCall(d, calls) == [d EXCEPT !.sink = @ \cup calls]

\* (millis() - bootTime) / 1000 and (millis() - bootTime) % 1000 at millis() = now
LogicalMs(d, now) == Sub32(now, d.bootTime)

LogicalNow(d, now) == DivU(LogicalMs(d, now), 1000)

----------------------------------------------------------------------------
(* OnDataRecv: the receive callback, lines 105-168 *)

\* (faulty variant: a message that ties with the local time is adopted too)
AdoptsTies(d, now, m) == GeU(m.timestamp, LogicalNow(d, now))

Adopts(d, now, m) == GtU(m.timestamp, LogicalNow(d, now))

StateChanged(d, m) ==
  \/ d.currentPattern # m.pattern
  \/ d.brightness # m.brightness
  \/ d.colorPosition # m.colorOffset

AdoptClock(now, ts) == Sub32(now, Add32(Mul32(ts, 1000), ADOPT_DELAY_MS))

\* (faulty variant: the hue is adopted as a target to move to, and
\* baseColorOffset is left to the transition)
AdoptColorAsTarget(d, m) ==
  IF d.colorPosition # m.colorOffset
  THEN [d EXCEPT !.targetColorOffset = m.colorOffset,
                 !.colorPosition = m.colorOffset,
                 !.useCustomColor = TRUE]
  ELSE d

AdoptColor(d, m) ==
  IF d.colorPosition # m.colorOffset
  THEN [d EXCEPT !.baseColorOffset = m.colorOffset,
                 !.targetColorOffset = m.colorOffset,
                 !.colorPosition = m.colorOffset,
                 !.useCustomColor = TRUE]
  ELSE d

\* (faulty variant: every adopted message enters fast mode)
AdoptFastModeAlways(d, now, changed) ==
  [d EXCEPT !.lastChangeTime = now, !.fastSyncMode = TRUE]

AdoptFastMode(d, now, changed) ==
  IF changed
  THEN [d EXCEPT !.lastChangeTime = now, !.fastSyncMode = TRUE]
  ELSE d

OnDataRecv(d, now, m) ==
  IF Adopts(d, now, m)
  THEN LET d1 == [d EXCEPT !.syncPending = TRUE,
                           !.bootTime = AdoptClock(now, m.timestamp)]
           d2 == IF d1.currentPattern # m.pattern
                 THEN [d1 EXCEPT !.currentPattern = m.pattern,
                                 !.lastPatternChange = now]
                 ELSE d1
           d3 == IF d2.brightness # m.brightness
                 THEN SinkCall([d2 EXCEPT !.brightness = m.brightness],
                               {"setBrightness"})
                 ELSE d2
           d4 == AdoptColor(d3, m)
       IN  AdoptFastMode(d4, now, StateChanged(d, m))
  ELSE d

----------------------------------------------------------------------------
(* Local changes: checkInputs, changePattern, enterSleepMode,              *)
(* wakeFromSleepMode                                                       *)

\* (faulty variant: the clock is set back to the start of its second)
AdvanceClockTruncates(d, now) ==
  [d EXCEPT !.bootTime = Sub32(now, Mul32(LogicalNow(d, now), 1000))]

\* "Force our timestamp to advance so we become the master":
\*   currentTime = (now - bootTime) / 1000;
\*   bootTime = now - ((currentTime + 2) * 1000);
AdvanceClock(d, now) ==
  [d EXCEPT !.bootTime =
     Sub32(now, Mul32(Add32(LogicalNow(d, now), PROMOTE_SECONDS), 1000))]

\* fastSyncMode = true; lastChangeTime = now;
EnterFastMode(d, now) == [d EXCEPT !.fastSyncMode = TRUE, !.lastChangeTime = now]

\* isBlinking = false; blinkState = 0; blinkFadeBrightness_ = 1.0f;
\* nextBlinkTime = now + random(2000, 10000); start/endBlinkMs_ reset
ResetBlink(d, now, rb) ==
  [d EXCEPT !.isBlinking = FALSE,
            !.blinkState = 0,
            !.blinkFadeBrightness_ = FadeOne,
            !.startBlinkMs_ = now,
            !.endBlinkMs_ = Add32(now, 300),
            !.nextBlinkTime = Add32(now, rb)]

\* C's constrain(x, lo, hi)
Constrain(x, lo, hi) == IF x < lo THEN lo ELSE IF x > hi THEN hi ELSE x

enterSleepMode(d) ==
  SinkCall([d EXCEPT !.inSleepMode = TRUE], {"setPixelColor", "show"})

\* now is the millis() read at line 357; rnd holds the values random() returns
wakeFromSleepMode(d, now, rnd) ==
  LET d1 == [d EXCEPT !.inSleepMode = FALSE, !.lastUpdate = now]
      d2 == ResetBlink(d1, now, rnd.blink)
      d3 == [d2 EXCEPT !.currentPattern = rnd.pattern,
                       !.colorPosition = rnd.hue,
                       !.targetColorOffset = rnd.hue,
                       !.baseColorOffset = rnd.hue,
                       !.useCustomColor = TRUE]
  IN  SinkCall(d3, {"setPixelColor", "show"})

\* now is the millis() read at line 966
changePattern(d, now, direction, rnd) ==
  LET d1 == [d EXCEPT !.lastUpdate = now,
                      !.currentPattern = (@ + NUM_PATTERNS + direction) % NUM_PATTERNS,
                      !.baseColorOffset = d.colorPosition,
                      !.targetColorOffset = d.colorPosition]
      d2 == ResetBlink(d1, now, rnd.blink)
      d3 == [d2 EXCEPT !.lastPatternChange = now]
      d4 == EnterFastMode(AdvanceClock(d3, now), now)
  IN  [d4 EXCEPT !.lastSyncTime = 0]

\* checkInputs lines 739-777: the encoder
\* (faulty variant: every encoder change advances the clock)
EncoderNeverThrottled(d, now) == FALSE

EncoderThrottled(d, now) == ~GtU(Sub32(now, d.lastEncoderUpdate), ENCODER_THROTTLE_MS)

\* C's % on int: the result has the sign of the dividend
CRem(a, n) == IF a >= 0 THEN a % n ELSE -((-a) % n)

\* lines 745-746
\* (faulty variant: a negative remainder is kept)
EncoderHueNoWrap(colorPosition, change) == CRem(colorPosition + change, 256)

EncoderHue(colorPosition, change) ==
  LET c == CRem(colorPosition + change, 256)
  IN  IF c < 0 THEN c + 256 ELSE c

CheckEncoder(d, now, position) ==
  IF position # d.lastPosition
  THEN LET c  == EncoderHue(d.colorPosition, position - d.lastPosition)
           d1 == [d EXCEPT !.colorPosition = c,
                           !.lastPosition = position,
                           !.targetColorOffset = c,
                           !.baseColorOffset = c,
                           !.useCustomColor = TRUE]
       IN  IF EncoderThrottled(d, now)
           THEN d1
           ELSE LET d2 == EnterFastMode(AdvanceClock(d1, now), now)
                IN  [d2 EXCEPT !.lastEncoderUpdate = now,
                               !.lastSyncTime = Sub32(now, 900)]
  ELSE d

\* checkInputs lines 782-852: the press edge of the center button; t2 is the
\* millis() read inside wakeFromSleepMode
CenterRandomize(d, now, rnd) ==
  LET d1 == [d EXCEPT !.currentPattern = rnd.pattern,
                      !.colorPosition = rnd.hue,
                      !.targetColorOffset = rnd.hue,
                      !.baseColorOffset = rnd.hue,
                      !.useCustomColor = TRUE,
                      !.lastUpdate = now]
      d2 == ResetBlink(d1, now, rnd.blink)
      d3 == [d2 EXCEPT !.lastPatternChange = now]
      d4 == EnterFastMode(AdvanceClock(d3, now), now)
  IN  [d4 EXCEPT !.lastSyncTime = 0]

\* (faulty variant: a press while asleep only starts the hold timer)
CheckCenterEdgeNoWake(d, now, t2, center, rnd) ==
  IF center /\ ~d.lastButtons[0]
  THEN LET d1 == [d EXCEPT !.buttonLongPressInProgress = TRUE,
                           !.buttonPressStartTime = now]
       IN  IF d1.inSleepMode
           THEN [d1 EXCEPT !.longPressHandled = FALSE]
           ELSE CenterRandomize(d1, now, rnd)
  ELSE d

CheckCenterEdge(d, now, t2, center, rnd) ==
  IF center /\ ~d.lastButtons[0]
  THEN LET d1 == [d EXCEPT !.buttonLongPressInProgress = TRUE,
                           !.buttonPressStartTime = now]
       IN  IF d1.inSleepMode
           THEN [wakeFromSleepMode(d1, t2, rnd) EXCEPT !.longPressHandled = FALSE]
           ELSE CenterRandomize(d1, now, rnd)
  ELSE d

\* checkInputs lines 857-900: the hold timer of the center button
\* (faulty variant: a long press is handled again on every later poll)
LongPressDueAgain(d, now) ==
  /\ d.buttonLongPressInProgress
  /\ GeU(Sub32(now, d.buttonPressStartTime), BUTTON_HOLD_TIME)

LongPressDue(d, now) ==
  /\ d.buttonLongPressInProgress
  /\ ~d.longPressHandled
  /\ GeU(Sub32(now, d.buttonPressStartTime), BUTTON_HOLD_TIME)

CheckCenterHold(d, now, t2, center, rnd) ==
  LET d3 ==
        IF center
        THEN LET d1 == IF ~d.buttonLongPressInProgress
                       THEN [d EXCEPT !.buttonLongPressInProgress = TRUE,
                                      !.buttonPressStartTime = now,
                                      !.longPressHandled = FALSE]
                       ELSE d
             IN  IF LongPressDue(d1, now)
                 THEN LET d2 == [d1 EXCEPT !.longPressHandled = TRUE]
                      IN  IF d2.inSleepMode
                          THEN wakeFromSleepMode(d2, t2, rnd)
                          ELSE enterSleepMode(d2)
                 ELSE d1
        ELSE IF d.buttonLongPressInProgress
             THEN [d EXCEPT !.buttonLongPressInProgress = FALSE,
                            !.longPressHandled = FALSE]
             ELSE d
  IN  [d3 EXCEPT !.lastButtons[0] = center]

\* checkInputs lines 902-946: the up (idx 1, step +25) and down (idx 2,
\* step -25) buttons
CheckBrightnessButton(d, now, idx, pressed, step) ==
  LET d3 ==
        IF pressed /\ ~d.lastButtons[idx]
        THEN LET d1 == SinkCall([d EXCEPT !.brightness = Constrain(@ + step, 10, 255)],
                                {"setBrightness"})
                 d2 == EnterFastMode(AdvanceClock(d1, now), now)
             IN  [d2 EXCEPT !.lastSyncTime = 0]
        ELSE d
  IN  [d3 EXCEPT !.lastButtons[idx] = pressed]

\* checkInputs lines 948-962: the left (idx 3, -1) and right (idx 4, +1)
\* buttons; t2 is the millis() read inside changePattern
CheckPatternButton(d, t2, idx, pressed, direction, rnd) ==
  LET d1 == IF pressed /\ ~d.lastButtons[idx]
            THEN changePattern(d, t2, direction, rnd)
            ELSE d
  IN  [d1 EXCEPT !.lastButtons[idx] = pressed]

\* checkInputs, lines 722-963.  now is the millis() read at line 728, t2 the
\* one read later by changePattern or wakeFromSleepMode; in.encoder is
\* ano.getEncoderPosition() and in.btn[i] the (active-low) button levels,
\* TRUE meaning pressed, in the order center, up, down, left, right.
checkInputs(d, now, t2, in, rnd) ==
  IF ~d.anoAvailable
  THEN d
  ELSE LET d1 == CheckEncoder(d, now, in.encoder)
           d2 == CheckCenterEdge(d1, now, t2, in.btn[0], rnd)
           d3 == CheckCenterHold(d2, now, t2, in.btn[0], rnd)
           d4 == CheckBrightnessButton(d3, now, 1, in.btn[1], 25)
           d5 == CheckBrightnessButton(d4, now, 2, in.btn[2], -25)
           d6 == CheckPatternButton(d5, t2, 3, in.btn[3], -1, rnd)
       IN  CheckPatternButton(d6, t2, 4, in.btn[4], 1, rnd)

----------------------------------------------------------------------------
(* broadcastSync, lines 391-461 *)

\* conversion of an int to the uint8_t fields of sync_message
ToU8(x) == x % 256

SyncMessage(d, now) ==
  Msg(LogicalNow(d, now), ToU8(d.currentPattern), ToU8(d.brightness),
      ToU8(IF d.useCustomColor THEN d.colorPosition ELSE d.baseColorOffset))

\* (faulty variant: a reinitialisation that fails restarts the count too)
broadcastSyncSpaced(d, now, tx) ==
  IF ~d.espNowInitialized
  THEN d
  ELSE LET m  == Msg(LogicalNow(d, now), d.currentPattern % 256, d.brightness % 256,
                     (IF d.useCustomColor THEN d.colorPosition ELSE d.baseColorOffset) % 256)
           ok == d.espNowUp /\ tx.sendOk
       IN  IF ok
           THEN [d EXCEPT !.errorCount = 0,
                          !.sent = Append(@, [msg |-> m, ok |-> TRUE, reinit |-> "none"])]
           ELSE LET n == (d.errorCount + 1) % 256
                IN  IF n >= MAX_SEND_ERRORS
                    THEN [d EXCEPT !.errorCount = 0,
                                   !.espNowUp = tx.reinitOk,
                                   !.sent = Append(@, [msg |-> m, ok |-> FALSE,
                                              reinit |-> IF tx.reinitOk THEN "ok" ELSE "failed"])]
                    ELSE [d EXCEPT !.errorCount = n,
                                   !.sent = Append(@, [msg |-> m, ok |-> FALSE, reinit |-> "none"])]

\* (faulty variant: the reinitialisation waits for one failure more)
broadcastSyncLate(d, now, tx) ==
  IF ~d.espNowInitialized
  THEN d
  ELSE LET m  == Msg(LogicalNow(d, now), d.currentPattern % 256, d.brightness % 256,
                     (IF d.useCustomColor THEN d.colorPosition ELSE d.baseColorOffset) % 256)
           ok == d.espNowUp /\ tx.sendOk
       IN  IF ok
           THEN [d EXCEPT !.errorCount = 0,
                          !.sent = Append(@, [msg |-> m, ok |-> TRUE, reinit |-> "none"])]
           ELSE LET n == (d.errorCount + 1) % 256
                IN  IF n > MAX_SEND_ERRORS
                    THEN [d EXCEPT !.errorCount = IF tx.reinitOk THEN 0 ELSE n,
                                   !.espNowUp = tx.reinitOk,
                                   !.sent = Append(@, [msg |-> m, ok |-> FALSE,
                                              reinit |-> IF tx.reinitOk THEN "ok" ELSE "failed"])]
                    ELSE [d EXCEPT !.errorCount = n,
                                   !.sent = Append(@, [msg |-> m, ok |-> FALSE, reinit |-> "none"])]

\* tx.sendOk: esp_now_send returns ESP_OK; tx.reinitOk: esp_now_init returns
\* ESP_OK when a reinitialisation is attempted.  An entry of sent records the
\* message, the send's result and whether a reinitialisation was attempted.
broadcastSync(d, now, tx) ==
  IF ~d.espNowInitialized
  THEN d
  ELSE LET m  == SyncMessage(d, now)
           ok == d.espNowUp /\ tx.sendOk
       IN  IF ok
           THEN [d EXCEPT !.errorCount = 0,
                          !.sent = Append(@, [msg |-> m, ok |-> TRUE, reinit |-> "none"])]
           ELSE LET n == (d.errorCount + 1) % 256
                IN  IF n >= MAX_SEND_ERRORS
                    THEN [d EXCEPT !.errorCount = IF tx.reinitOk THEN 0 ELSE n,
                                   !.espNowUp = tx.reinitOk,
                                   !.sent = Append(@, [msg |-> m, ok |-> FALSE,
                                              reinit |-> IF tx.reinitOk THEN "ok" ELSE "failed"])]
                    ELSE [d EXCEPT !.errorCount = n,
                                   !.sent = Append(@, [msg |-> m, ok |-> FALSE, reinit |-> "none"])]

----------------------------------------------------------------------------
(* loop(), lines 463-677, in the order of its statements *)

\* lines 466-480: the input poll; cm is currentMillis, now the later millis()
\* reads of checkInputs and of the functions it calls
PollDue(d, cm) == d.anoAvailable /\ GeU(Sub32(cm, d.lastButtonCheck), BUTTON_POLL_MS)

\* the poll finds a press edge or an encoder change
PollFinds(d, cm, in) ==
  /\ PollDue(d, cm)
  /\ \/ in.encoder # d.lastPosition
     \/ \E b \in DOMAIN d.lastButtons : in.btn[b] /\ ~d.lastButtons[b]

LoopInputs(d, cm, now, in, rnd) ==
  IF PollDue(d, cm)
  THEN [checkInputs(d, now, now, in, rnd) EXCEPT
          !.lastButtonCheck = cm,
          !.touched = IF PollFinds(d, cm, in) THEN now ELSE @]
  ELSE d

\* (faulty variant: a broadcast is due again after one poll period)
SyncIntervalPoll(d) == BUTTON_POLL_MS

\* line 485, evaluated before the fast-mode expiry check
SyncInterval(d) == IF d.fastSyncMode THEN FAST_SYNC_INTERVAL ELSE SYNC_INTERVAL

\* lines 490-493 and 513-516
FastModeExpired(d, cm) ==
  d.fastSyncMode /\ GtU(Sub32(cm, d.lastChangeTime), FAST_MODE_WINDOW)

ExpireFastMode(d, cm) ==
  IF FastModeExpired(d, cm) THEN [d EXCEPT !.fastSyncMode = FALSE] ELSE d

\* lines 497-501 and 545-549; ms is millisInCurrentSecond, iv is syncInterval
ClearsSyncPending(d, cm, ms, iv) ==
  \/ d.fastSyncMode /\ GeU(Sub32(cm, d.lastSyncTime), iv)
  \/ ~d.fastSyncMode /\ ms >= 100

\* (faulty variant: loop() leaves syncPending as it is)
ResetSyncPendingNever(d, cm, ms, iv) == d

ResetSyncPending(d, cm, ms, iv) ==
  IF d.syncPending /\ ClearsSyncPending(d, cm, ms, iv)
  THEN [d EXCEPT !.syncPending = FALSE]
  ELSE d

\* lines 488-506: the asleep branch of loop()
\* (faulty variant: the asleep branch broadcasts as the awake one does)
LoopAsleepBroadcasts(d, cm, ms, iv) ==
  LET d1 == ExpireFastMode(d, cm)
  IN  IF /\ d1.espNowInitialized
         /\ GeU(Sub32(cm, d1.lastSyncTime), iv)
         /\ ~d1.syncPending
         /\ (d1.fastSyncMode \/ ms < 100)
      THEN [broadcastSync(d1, cm, [sendOk |-> TRUE, reinitOk |-> TRUE])
              EXCEPT !.lastSyncTime = cm]
      ELSE d1

LoopAsleep(d, cm, ms, iv) ==
  LET d1 == ExpireFastMode(d, cm)
  IN  IF d1.espNowInitialized THEN ResetSyncPending(d1, cm, ms, iv) ELSE d1

\* lines 520-541: whether this tick broadcasts
\* (faulty variant: syncPending does not hold a broadcast back)
BroadcastDueWhilePending(d, cm, ms, iv) ==
  /\ d.espNowInitialized
  /\ GeU(Sub32(cm, d.lastSyncTime), iv)
  /\ (d.fastSyncMode \/ ms < 100)

BroadcastDue(d, cm, ms, iv) ==
  /\ d.espNowInitialized
  /\ GeU(Sub32(cm, d.lastSyncTime), iv)
  /\ ~d.syncPending
  /\ (d.fastSyncMode \/ ms < 100)

LoopSync(d, cm, now, ms, iv, tx) ==
  IF d.espNowInitialized
  THEN IF BroadcastDue(d, cm, ms, iv)
       THEN [broadcastSync(d, now, tx) EXCEPT !.lastSyncTime = cm]
       ELSE d
  ELSE IF GeU(Sub32(cm, d.lastSyncTime), 10000)
       THEN [d EXCEPT !.lastSyncTime = cm]
       ELSE d

\* lines 552-560
AutoCycle(d, cm) ==
  IF ~d.anoAvailable /\ GeU(Sub32(cm, d.lastPatternChange), AUTO_CYCLE_MS)
  THEN [d EXCEPT !.currentPattern = (@ + 1) % NUM_PATTERNS,
                 !.lastPatternChange = cm]
  ELSE d

Abs(x) == IF x < 0 THEN -x ELSE x

\* lines 568-573
\* (faulty variant: the distance is not taken around the wheel)
HueDistanceNoWrap(base, target) == Abs(target - base)

HueDistance(base, target) ==
  LET dist == Abs(target - base)
  IN  IF dist > 128 THEN 256 - dist ELSE dist

\* lines 587-589
StepSize(distance) == IF distance > 60 THEN 3 ELSE IF distance > 30 THEN 2 ELSE 1

\* lines 591-612
\* (faulty variant: the step goes straight towards the target, never across
\* the wrap of the wheel)
HueStepDirect(base, target, stepSize) ==
  IF base < target THEN base + stepSize
  ELSE IF base > target THEN base - stepSize ELSE base

HueStep(base, target, stepSize) ==
  LET moved ==
        IF base < target
        THEN IF target - base > 128
             THEN CRem(base - stepSize, 256)
             ELSE CRem(base + stepSize, 256)
        ELSE IF base > target
             THEN IF base - target > 128
                  THEN CRem(base + stepSize, 256)
                  ELSE CRem(base - stepSize, 256)
             ELSE base
      w1 == IF moved >= 256 THEN 0 ELSE moved
  IN  IF w1 < 0 THEN w1 + 256 ELSE w1

\* lines 562-617
\* (faulty variant: the snap waits for the transition delay as a step does)
ColorTransitionGated(d, cm) ==
  IF d.baseColorOffset # d.targetColorOffset /\ ~d.syncPending
     /\ GeU(Sub32(cm, d.lastColorTransition), 25)
  THEN LET distance == HueDistance(d.baseColorOffset, d.targetColorOffset)
       IN  IF distance <= 3
           THEN [d EXCEPT !.baseColorOffset = d.targetColorOffset]
           ELSE [d EXCEPT !.baseColorOffset =
                             HueStep(d.baseColorOffset, d.targetColorOffset,
                                     StepSize(distance)),
                          !.lastColorTransition = cm]
  ELSE d

\* (faulty variant: no snap; the last step is taken like any other)
ColorTransitionNoSnap(d, cm) ==
  IF d.baseColorOffset # d.targetColorOffset /\ ~d.syncPending
     /\ GeU(Sub32(cm, d.lastColorTransition), 25)
  THEN [d EXCEPT !.baseColorOffset =
                    HueStep(d.baseColorOffset, d.targetColorOffset,
                            StepSize(HueDistance(d.baseColorOffset, d.targetColorOffset) + 60)),
                 !.lastColorTransition = cm]
  ELSE d

ColorTransition(d, cm) ==
  IF d.baseColorOffset # d.targetColorOffset /\ ~d.syncPending
  THEN LET distance == HueDistance(d.baseColorOffset, d.targetColorOffset)
       IN  IF distance <= 3
           THEN [d EXCEPT !.baseColorOffset = d.targetColorOffset]
           ELSE IF GeU(Sub32(cm, d.lastColorTransition), 25)
                THEN [d EXCEPT !.baseColorOffset =
                                  HueStep(d.baseColorOffset, d.targetColorOffset,
                                          StepSize(distance)),
                               !.lastColorTransition = cm]
                ELSE d
  ELSE d

\* lines 619-632
BlinkCompletionCheck(d, cm, rnd) ==
  IF GtU(Sub32(cm, d.lastBlinkCompletionCheck), 200)
  THEN LET d1 == [d EXCEPT !.lastBlinkCompletionCheck = cm]
       IN  IF d1.isBlinking /\ GtU(cm, Add32(d1.endBlinkMs_, 2000))
           THEN [d1 EXCEPT !.isBlinking = FALSE,
                           !.blinkState = 0,
                           !.blinkFadeBrightness_ = FadeOne,
                           !.nextBlinkTime = Add32(cm, rnd.blink)]
           ELSE d1
  ELSE d

\* lines 634-648
\* (faulty variant: no blink ever starts)
BlinkStartNever(d, cm) == d

\* (faulty variant: a blink starts whenever none is in progress)
BlinkStartEarly(d, cm) ==
  IF ~d.isBlinking
  THEN [d EXCEPT !.isBlinking = TRUE,
                 !.blinkState = 0,
                 !.startBlinkMs_ = cm,
                 !.endBlinkMs_ = Add32(cm, 300),
                 !.blinkFadeBrightness_ = FadeOne]
  ELSE d

BlinkStart(d, cm) ==
  IF ~d.isBlinking /\ GeU(cm, d.nextBlinkTime)
  THEN [d EXCEPT !.isBlinking = TRUE,
                 !.blinkState = 0,
                 !.startBlinkMs_ = cm,
                 !.endBlinkMs_ = Add32(cm, 300),
                 !.blinkFadeBrightness_ = FadeOne]
  ELSE d

\* the wait argument updatePattern passes to the pattern functions, lines 694-719
PatternWait(p) ==
  CASE p = 0 -> 50
    [] p = 1 -> 60
    [] p = 2 -> 30
    [] p = 3 -> 40
    [] p = 4 -> 30
    [] OTHER -> 50

\* updatePattern, lines 679-720, with the frame gate every pattern function
\* starts with (currentMillis - lastUpdate < wait returns) and the pixel-sink
\* calls of the frame it draws
updatePattern(d, cm, rnd) ==
  LET d1 == IF ~d.initialColorSet
            THEN [d EXCEPT !.colorPosition = rnd.hue,
                           !.baseColorOffset = rnd.hue,
                           !.targetColorOffset = rnd.hue,
                           !.useCustomColor = TRUE,
                           !.initialColorSet = TRUE]
            ELSE d
  IN  IF LtU(Sub32(cm, d1.lastUpdate), PatternWait(d1.currentPattern))
      THEN d1
      ELSE SinkCall([d1 EXCEPT !.lastUpdate = cm], {"setPixelColor", "show"})

\* handleEyeBlink lines 1373-1399 and 1411-1441: the linear fades.  elapsed
\* and duration are in ms; the result is in millionths.
\* (faulty variant: the fade spans the whole of the factor, not 0.9 of it)
FadeProgressFull(d, cm) ==
  LET span     == Sub32(d.endBlinkMs_, d.startBlinkMs_)
      duration == IF span = 0 THEN 1 ELSE span
      elapsed  == IF GtU(cm, d.startBlinkMs_) THEN Sub32(cm, d.startBlinkMs_) ELSE 0
  IN  IF GeU(elapsed, duration) THEN FadeOne ELSE (1000 * 1000 * elapsed) \div duration

FadeProgress(d, cm) ==
  LET span     == Sub32(d.endBlinkMs_, d.startBlinkMs_)
      duration == IF span = 0 THEN 1 ELSE span
      elapsed  == IF GtU(cm, d.startBlinkMs_) THEN Sub32(cm, d.startBlinkMs_) ELSE 0
  IN  IF GeU(elapsed, duration) THEN 900 * 1000 ELSE (900 * 1000 * elapsed) \div duration

\* (faulty variant: a factor at or below the minimum becomes 0)
ClampFadeDark(f) == IF f <= FadeMin THEN 0 ELSE IF f > FadeOne THEN FadeOne ELSE f

ClampFade(f) == IF f < FadeMin THEN FadeMin ELSE IF f > FadeOne THEN FadeOne ELSE f

\* handleEyeBlink lines 1338-1342
BlinkTimingInvalid(d, cm) ==
  \/ LtU(d.endBlinkMs_, d.startBlinkMs_)
  \/ GtU(Sub32(d.endBlinkMs_, d.startBlinkMs_), 1000)
  \/ GtU(d.startBlinkMs_, Add32(cm, 1000))
  \/ GtU(cm, Add32(d.endBlinkMs_, 5000))

\* handleEyeBlink, lines 1313-1446
handleEyeBlink(d, cm, rnd) ==
  IF d.blinkState > 3
  THEN [d EXCEPT !.blinkState = 0,
                 !.isBlinking = FALSE,
                 !.blinkFadeBrightness_ = FadeOne,
                 !.nextBlinkTime = Add32(cm, 3000 + rnd.jitter)]
  ELSE IF BlinkTimingInvalid(d, cm)
  THEN [d EXCEPT !.startBlinkMs_ = cm,
                 !.endBlinkMs_ = Add32(cm, 300),
                 !.blinkState = 0,
                 !.blinkFadeBrightness_ = FadeOne,
                 !.isBlinking = FALSE,
                 !.nextBlinkTime = Add32(cm, 4000 + rnd.jitter)]
  ELSE LET d1 ==
             CASE d.blinkState = 0 ->
                    [d EXCEPT !.startBlinkMs_ = cm,
                              !.endBlinkMs_ = Add32(cm, 300),
                              !.blinkFadeBrightness_ = FadeOne,
                              !.blinkState = 1]
               [] d.blinkState = 1 ->
                    IF LtU(cm, d.endBlinkMs_)
                    THEN [d EXCEPT !.blinkFadeBrightness_ = FadeOne - FadeProgress(d, cm)]
                    ELSE [d EXCEPT !.blinkFadeBrightness_ = FadeMin,
                                   !.startBlinkMs_ = cm,
                                   !.endBlinkMs_ = Add32(cm, 50),
                                   !.blinkState = 2]
               [] d.blinkState = 2 ->
                    IF GeU(cm, d.endBlinkMs_)
                    THEN [d EXCEPT !.startBlinkMs_ = cm,
                                   !.endBlinkMs_ = Add32(cm, 300),
                                   !.blinkState = 3]
                    ELSE d
               [] OTHER ->
                    IF LtU(cm, d.endBlinkMs_)
                    THEN [d EXCEPT !.blinkFadeBrightness_ = FadeMin + FadeProgress(d, cm)]
                    ELSE [d EXCEPT !.blinkFadeBrightness_ = FadeOne,
                                   !.blinkState = 0,
                                   !.isBlinking = FALSE,
                                   !.nextBlinkTime = Add32(cm, rnd.blink)]
       IN  [d1 EXCEPT !.blinkFadeBrightness_ = ClampFade(@)]

\* lines 653-674
BlinkStateInvalid(d, cm) ==
  \/ d.blinkState > 3
  \/ GtU(d.startBlinkMs_, Add32(cm, 1000))
  \/ LtU(d.endBlinkMs_, d.startBlinkMs_)
  \/ GtU(cm, Add32(d.endBlinkMs_, 10000))

\* (faulty variant: the recovery schedules the next blink for now)
LoopBlinkDueNow(d, cm, rnd) ==
  IF d.isBlinking
  THEN [d EXCEPT !.isBlinking = FALSE,
                 !.blinkState = 0,
                 !.blinkFadeBrightness_ = FadeOne,
                 !.nextBlinkTime = cm]
  ELSE d

LoopBlink(d, cm, rnd) ==
  IF d.isBlinking /\ BlinkStateInvalid(d, cm)
  THEN [d EXCEPT !.isBlinking = FALSE,
                 !.blinkState = 0,
                 !.blinkFadeBrightness_ = FadeOne,
                 !.nextBlinkTime = Add32(cm, rnd.blink)]
  ELSE IF d.isBlinking
       THEN handleEyeBlink(d, cm, rnd)
       ELSE d

\* lines 508-677: the awake part of loop()
LoopAwake(d, cm, now, ms, iv, rnd, tx) ==
  LET d1 == ExpireFastMode(d, cm)
      d2 == LoopSync(d1, cm, now, ms, iv, tx)
      d3 == ResetSyncPending(d2, cm, ms, iv)
      d4 == AutoCycle(d3, cm)
      d5 == ColorTransition(d4, cm)
      d6 == BlinkCompletionCheck(d5, cm, rnd)
      d7 == BlinkStart(d6, cm)
      d8 == updatePattern(d7, cm, rnd)
  IN  LoopBlink(d8, cm, rnd)

\* loop(): cm is currentMillis (line 464), now the value of the millis()
\* reads made later in the same iteration (now is cm or later).
loop(d, cm, now, in, rnd, tx) ==
  LET d1 == LoopInputs(d, cm, now, in, rnd)
      ms == ModU(LogicalMs(d1, cm), 1000)
      iv == SyncInterval(d1)
  IN  IF d1.inSleepMode
      THEN LoopAsleep(d1, cm, ms, iv)
      ELSE LoopAwake(d1, cm, now, ms, iv, rnd, tx)

----------------------------------------------------------------------------
(* Bounds and the values the environment is drawn from *)

\* time advances at most this many times
MaxTicks == 3

\* and at most this many times where the messages are what varies
MaxRecvTicks == 1

\* at most this many button and encoder events
MaxInputs == 2

\* or at most this many presses and releases of the center button alone
MaxPresses == 3

\* in a group of two: ticks, button events and deliveries
MaxNetTicks == 2

MaxNetInputs == 2

MaxDeliveries == 2

\* at most this many messages are received
MaxMsgs == 2

\* where sends fail: time advances at most this many times, and at most
\* this many sends fail while the transport is up
MaxFaultTicks == 7

MaxFaults == 6

\* time advances at most this many times where the broadcast cadence is
\* what varies
MaxSyncTicks == 4

\* a slow device's iteration of loop() reads millis() again this many ms
\* after it sampled currentMillis
MaxLag == 1

\* millis() when setup() ends
BootMillis == 1000

\* amounts by which time advances between the model's steps: the input poll
\* period, the long-press threshold, and just over the fast-mode window
TickSteps == {BUTTON_POLL_MS, BUTTON_HOLD_TIME, FAST_MODE_WINDOW + 1}

\* sample values of random(NUM_PATTERNS), random(256), random(2000, 10000)
\* and of the 0..999 spread of random(3000, 4000) and random(4000, 5000)
RandomDraws ==
  {[pattern |-> 1, hue |-> 7, blink |-> 2000, jitter |-> 0],
   [pattern |-> 4, hue |-> 200, blink |-> 2000, jitter |-> 0]}

DefaultDraw == CHOOSE r \in RandomDraws : r.pattern = 1

\* the first frame draws DefaultDraw; after it loop() can call
\* random(NUM_PATTERNS) or random(256) only with the center button down
DrawsFor(d, in) ==
  IF in.btn[0] THEN RandomDraws ELSE {DefaultDraw}

\* results of esp_now_send and of esp_now_init on reinitialisation
TxResults == [sendOk : BOOLEAN, reinitOk : BOOLEAN]

DefaultTx == [sendOk |-> TRUE, reinitOk |-> TRUE]

\* loop() can call esp_now_send only with the transport initialised, and
\* esp_now_init only on the failure that reaches MAX_SEND_ERRORS; sends fail
\* while faults are left
TxFor(d, faults) ==
  IF d.espNowInitialized /\ faults > 0
  THEN {tx \in TxResults : tx.reinitOk \/ (~tx.sendOk /\ d.errorCount + 1 >= MAX_SEND_ERRORS)}
  ELSE {DefaultTx}

\* encoder movement per turn event
EncoderDeltas == {-3}

\* indices of lastButtons[5]: center, up, down, left, right
CENTER == 0

Buttons == 0..4

\* the button operated on each device of a group of two: down on one, right
\* on the other
NetButton == [A |-> 2, B |-> 4]

\* in a group of two time advances by the poll period or the sync interval
NetTickSteps == {BUTTON_POLL_MS, SYNC_INTERVAL}

\* where the broadcast cadence is what varies time advances by the poll
\* period, the normal sync interval, or to one poll period before the end of
\* the fast-mode window; the one button operated is the down button
SyncTickSteps == {BUTTON_POLL_MS, SYNC_INTERVAL, FAST_MODE_WINDOW - BUTTON_POLL_MS}

SyncButton == NetButton.A

\* the hue wheel, and the hues of baseColorOffset for which syncPending and
\* the time of the last transition step are varied too
Hues == 0..255

HueSamples == {0, 10, 128, 254}

NoMsg == Msg(0, 0, 0, 0)

\* largest logical time in seconds that fits the uint32_t millisecond clock
MaxLogicalSeconds == DivU(-1, 1000)

\* timestamps of received messages seen by a device whose logical time is T:
\* around T, the largest a peer can send, and the first whose product with
\* 1000 exceeds 32 bits
MsgTimestamps(T) ==
  {Sub32(T, 1), T, Add32(T, 1), MaxLogicalSeconds, Add32(MaxLogicalSeconds, 1)}

\* contents of received messages seen by device d: its own state, its own
\* state with one field changed, and a state that differs in every field
MsgContents(d) ==
  LET p == ToU8(d.currentPattern)
      b == ToU8(d.brightness)
      c == ToU8(d.colorPosition)
      p2 == IF p = 3 THEN 200 ELSE 3
      b2 == IF b = 100 THEN 255 ELSE 100
      c2 == IF c = 250 THEN 5 ELSE 250
  IN  {<<p, b, c>>, <<p2, b, c>>, <<p, b2, c>>, <<p, b, c2>>, <<p2, b2, c2>>}

ReceivableMsgs(d) ==
  {Msg(ts, x[1], x[2], x[3]) : ts \in MsgTimestamps(LogicalNow(d, d.millis)),
                               x \in MsgContents(d)}

----------------------------------------------------------------------------
(* State machine *)

\* what the last step was: the action, the device, the lag of an iteration
\* of loop(), and of a received message: whether it was adopted; how its
\* timestamp compared with the receiver's logical time; whether its pattern,
\* brightness or hue differed from the receiver's; whether it is the message
\* the receiver adopted last, and whether its timestamp is smaller than that
\* message's
NoStep ==
  [act |-> "Init", i |-> "A", peer |-> "A", lag |-> 0, adopted |-> FALSE,
   rel |-> "none", differs |-> FALSE, repeat |-> FALSE, stale |-> FALSE]

Compare(a, b) == IF LtU(a, b) THEN "older" ELSE IF a = b THEN "tie" ELSE "newer"

\* the devices of a group, as set up by setup(): the input peripheral and the
\* transport may each have failed to come up
Boot(devices) ==
  [devices -> {InitDevice(BootMillis, ano, up, DefaultDraw.blink) :
                 ano \in BOOLEAN, up \in BOOLEAN}]

\* the same with every peripheral and transport up
BootAllUp(devices) ==
  [devices -> {InitDevice(BootMillis, TRUE, TRUE, DefaultDraw.blink)}]

\* net[i] is the last message device i broadcast successfully, the millis()
\* at which it did (0: none yet), and the peers it has been delivered to
NoBroadcast == [msg |-> NoMsg, at |-> 0, got |-> {}]

\* sched holds what is left of the bounds; the buttons that are operated and
\* whether the encoder is; lag, by how much the devices' iterations of loop()
\* are slow; and ran, the devices whose loop() has run since time last
\* advanced or their inputs or radio last changed
Budgets(ticks, inputs, buttons, turns, msgs) ==
  {[ticks |-> ticks, inputs |-> inputs, buttons |-> buttons, turns |-> turns,
    msgs |-> msgs, faults |-> 0, lag |-> lag, ran |-> {}] : lag \in 0..MaxLag}

Start(boots, budgets) ==
  /\ dev \in boots
  /\ env = [i \in DOMAIN dev |-> [encoder |-> 0, btn |-> [b \in Buttons |-> FALSE]]]
  /\ net = [i \in DOMAIN dev |-> NoBroadcast]
  /\ last = NoStep
  /\ sched \in budgets

\* one device on which any control is operated MaxInputs times, or the center
\* button MaxPresses times
Init ==
  Start(Boot({"A"}), Budgets(MaxTicks, MaxInputs, Buttons, TRUE, 0)
                 \cup Budgets(MaxTicks, MaxPresses, {CENTER}, FALSE, 0))

\* one device whose center button is operated once and that receives
\* MaxMsgs messages
InitRecv == Start(Boot({"A"}), Budgets(MaxRecvTicks, 1, {CENTER}, FALSE, MaxMsgs))

\* two working devices that boot together; a button of each is operated,
\* MaxNetInputs times in all, and MaxDeliveries broadcasts are delivered
InitNet ==
  Start(BootAllUp(DOMAIN NetButton),
        Budgets(MaxNetTicks, MaxNetInputs, Buttons, FALSE, MaxDeliveries))

\* wall-clock time passes, once every loop() has run: every device's
\* millis() advances by step
Tick(step) ==
  /\ sched.ticks > 0
  /\ sched.ran = DOMAIN dev
  /\ dev' = [i \in DOMAIN dev |-> [dev[i] EXCEPT !.millis = Add32(@, step)]]
  /\ sched' = [sched EXCEPT !.ticks = @ - 1, !.ran = {}]
  /\ last' = [NoStep EXCEPT !.act = "Tick"]
  /\ UNCHANGED <<env, net>>

\* a button is pressed or released
Button(i, b) ==
  /\ sched.inputs > 0
  /\ b \in sched.buttons
  /\ dev[i].anoAvailable
  /\ env' = [env EXCEPT ![i].btn[b] = ~@]
  /\ sched' = [sched EXCEPT !.inputs = @ - 1, !.ran = @ \ {i}]
  /\ last' = [NoStep EXCEPT !.act = "Button", !.i = i]
  /\ UNCHANGED <<dev, net>>

\* the encoder is turned
Turn(i, delta) ==
  /\ sched.inputs > 0
  /\ sched.turns
  /\ dev[i].anoAvailable
  /\ env' = [env EXCEPT ![i].encoder = @ + delta]
  /\ sched' = [sched EXCEPT !.inputs = @ - 1, !.ran = @ \ {i}]
  /\ last' = [NoStep EXCEPT !.act = "Turn", !.i = i]
  /\ UNCHANGED <<dev, net>>

\* one iteration of loop() on device i, the first since time advanced or
\* its inputs or its radio changed.  On a slow device it sampled
\* currentMillis lag ms ago, if the previous iteration had ended by then;
\* it ends now.
LoopLag(d) ==
  IF GeU(Sub32(d.millis, d.loopEnd), sched.lag) THEN sched.lag ELSE 0

\* the bookkeeping at the end of an iteration: when it ended, and how
\* many sends have failed in a row
LoopTally(d1, now) ==
  LET sends  == d1.sent # << >>
      resets == sends /\ (d1.sent[1].ok \/ d1.sent[1].reinit = "ok")
  IN  [d1 EXCEPT !.loopEnd = now,
                 !.failures = IF ~sends THEN @
                              ELSE IF d1.sent[1].ok THEN 0 ELSE @ + 1,
                 !.streak = IF ~sends THEN @
                            ELSE IF resets THEN 0 ELSE @ + 1]

Loop(i, rnd, tx) ==
  LET d   == dev[i]
      lag == LoopLag(d)
      cm  == Sub32(d.millis, lag)
  IN  /\ i \notin sched.ran
      /\ dev' = [dev EXCEPT ![i] =
                   LoopTally(loop(Clear(d), cm, d.millis, env[i], rnd, tx), d.millis)]
      /\ net' = IF dev'[i].sent # << >> /\ dev'[i].sent[1].ok
                THEN [net EXCEPT ![i] = [msg |-> dev'[i].sent[1].msg, at |-> d.millis, got |-> {}]]
                ELSE net
      /\ sched' = [sched EXCEPT !.ran = @ \cup {i},
                                !.faults = IF tx.sendOk THEN @ ELSE @ - 1]
      /\ last' = [NoStep EXCEPT !.act = "Loop", !.i = i, !.lag = lag]
      /\ UNCHANGED env

\* the receive callback runs on device i with message m
Recv(i, m) ==
  LET d  == dev[i]
      d1 == OnDataRecv(Clear(d), d.millis, m)
  IN  /\ sched.msgs > 0
      /\ d.espNowUp
      /\ dev' = [dev EXCEPT ![i] = [d1 EXCEPT !.heard = IF Adopts(d, d.millis, m) THEN m ELSE @]]
      /\ sched' = [sched EXCEPT !.msgs = @ - 1, !.ran = @ \ {i}]
      /\ last' = [NoStep EXCEPT !.act = "Recv", !.i = i,
                                !.adopted = Adopts(d, d.millis, m),
                                !.rel = Compare(m.timestamp, LogicalNow(d, d.millis)),
                                !.differs = StateChanged(d, m),
                                !.repeat = (d.heard # NoMsg /\ m = d.heard),
                                !.stale = (d.heard # NoMsg /\ LtU(m.timestamp, d.heard.timestamp))]
      /\ UNCHANGED <<env, net>>

\* the last broadcast of device i reaches device j, whose receive callback
\* runs
Deliver(i, j) ==
  LET d  == dev[j]
      m  == net[i].msg
      d1 == OnDataRecv(Clear(d), d.millis, m)
  IN  /\ sched.msgs > 0
      /\ i # j
      /\ net[i].at > 0
      /\ j \notin net[i].got
      /\ d.espNowUp
      /\ dev' = [dev EXCEPT ![j] = [d1 EXCEPT !.heard = IF Adopts(d, d.millis, m) THEN m ELSE @]]
      /\ net' = [net EXCEPT ![i].got = @ \cup {j}]
      /\ sched' = [sched EXCEPT !.msgs = @ - 1, !.ran = @ \ {j}]
      /\ last' = [NoStep EXCEPT !.act = "Deliver", !.i = j, !.peer = i,
                                !.adopted = Adopts(d, d.millis, m),
                                !.rel = Compare(m.timestamp, LogicalNow(d, d.millis)),
                                !.differs = StateChanged(d, m)]
      /\ UNCHANGED env

Iterate(i) ==
  \E rnd \in DrawsFor(dev[i], env[i]), tx \in TxFor(dev[i], sched.faults) : Loop(i, rnd, tx)

\* one device and its inputs
Next ==
  \/ \E step \in TickSteps : Tick(step)
  \/ \E i \in DOMAIN dev, b \in Buttons : Button(i, b)
  \/ \E i \in DOMAIN dev, delta \in EncoderDeltas : Turn(i, delta)
  \/ \E i \in DOMAIN dev : Iterate(i)

Spec == Init /\ [][Next]_vars

\* one device and every kind of message it can receive
NextRecv ==
  \/ \E step \in TickSteps : Tick(step)
  \/ \E i \in DOMAIN dev, b \in Buttons : Button(i, b)
  \/ \E i \in DOMAIN dev : Iterate(i)
  \/ \E i \in DOMAIN dev : \E m \in ReceivableMsgs(dev[i]) : Recv(i, m)

SpecRecv == InitRecv /\ [][NextRecv]_vars

\* two devices that hear each other
NextNet ==
  \/ \E step \in NetTickSteps : Tick(step)
  \/ \E i \in DOMAIN dev : Button(i, NetButton[i])
  \/ \E i \in DOMAIN dev : Iterate(i)
  \/ \E i \in DOMAIN dev, j \in DOMAIN dev : Deliver(i, j)

SpecNet == InitNet /\ [][NextNet]_vars

\* the hue transition of loop(), lines 562-617, as a function of its inputs:
\* a working device, its first frame drawn, with every baseColorOffset and
\* targetColorOffset of the wheel, the last transition step long ago; and
\* for the sampled baseColorOffset also with syncPending set, and in the
\* middle of a transition whose last step has just run
HueDevice(base, target, pending, lastStep) ==
  [InitDevice(BootMillis, TRUE, TRUE, DefaultDraw.blink) EXCEPT
     !.initialColorSet = TRUE,
     !.useCustomColor = TRUE,
     !.colorPosition = target,
     !.baseColorOffset = base,
     !.targetColorOffset = target,
     !.syncPending = pending,
     !.lastColorTransition = lastStep]

HueInputs ==
  {<<b, t, FALSE, 0>> : b \in Hues, t \in Hues}
    \cup {<<b, t, TRUE, 0>> : b \in HueSamples, t \in Hues}
    \cup {x \in {<<b, t, FALSE, BootMillis>> : b \in HueSamples, t \in Hues} : x[1] # x[2]}

InitHue ==
  \E x \in HueInputs :
    Start({[i \in {"A"} |-> HueDevice(x[1], x[2], x[3], x[4])]},
          {b \in Budgets(0, 0, {}, FALSE, 0) : b.lag = 0})

\* the hue transition of an iteration of loop() whose currentMillis is the
\* device's millis() runs on device i
Transition(i) ==
  /\ i \notin sched.ran
  /\ dev' = [dev EXCEPT ![i] = ColorTransition(Clear(dev[i]), dev[i].millis)]
  /\ sched' = [sched EXCEPT !.ran = @ \cup {i}]
  /\ last' = [NoStep EXCEPT !.act = "Transition", !.i = i]
  /\ UNCHANGED <<env, net>>

NextHue == \E i \in DOMAIN dev : Transition(i)

SpecHue == InitHue /\ [][NextHue]_vars

\* one working device whose sends fail, over several sync intervals
InitFault ==
  Start(BootAllUp({"A"}),
        {[b EXCEPT !.faults = MaxFaults] : b \in Budgets(MaxFaultTicks, 0, {}, FALSE, 0)})

NextFault ==
  \/ Tick(SYNC_INTERVAL)
  \/ \E i \in DOMAIN dev : Iterate(i)

SpecFault == InitFault /\ [][NextFault]_vars

\* one device whose down button is operated once, over several sync
\* intervals and to the end of the fast-mode window
InitSync == Start(Boot({"A"}), Budgets(MaxSyncTicks, 1, {SyncButton}, FALSE, 0))

NextSync ==
  \/ \E step \in SyncTickSteps : Tick(step)
  \/ \E i \in DOMAIN dev : Button(i, SyncButton)
  \/ \E i \in DOMAIN dev : Iterate(i)

SpecSync == InitSync /\ [][NextSync]_vars

\* the hue wheel under every operation that writes a hue: one working device
\* whose encoder is turned and center button operated, MaxRingInputs times in
\* all, and that receives one message; it starts as setup() leaves it, or
\* in the middle of a transition that is about to cross the wrap of the wheel
MaxRingTicks == 2

MaxRingInputs == 2

\* encoder movements of more than a full turn of the wheel, either way
RingDeltas == {-259, 258}

\* <<baseColorOffset, targetColorOffset>> 8 apart downwards across the
\* wrap, and 42 apart upwards across it
RingPairs == {<<2, 250>>, <<254, 40>>}

InitRing ==
  Start(BootAllUp({"A"})
          \cup {[i \in {"A"} |-> HueDevice(x[1], x[2], FALSE, 0)] : x \in RingPairs},
        {b \in Budgets(MaxRingTicks, MaxRingInputs, {CENTER}, TRUE, 1) : b.lag = 0})

NextRing ==
  \/ \E step \in NetTickSteps : Tick(step)
  \/ \E i \in DOMAIN dev : Button(i, CENTER)
  \/ \E i \in DOMAIN dev, delta \in RingDeltas : Turn(i, delta)
  \/ \E i \in DOMAIN dev : Iterate(i)
  \/ \E i \in DOMAIN dev : \E m \in ReceivableMsgs(dev[i]) : Recv(i, m)

SpecRing == InitRing /\ [][NextRing]_vars

\* the blink machine from any values of its variables: one working device,
\* awake, whose isBlinking, blinkState, startBlinkMs_, endBlinkMs_ and
\* blinkFadeBrightness_ hold any combination of the values below when an
\* iteration of loop() begins, and whose loop() then runs every
\* BUTTON_POLL_MS for MaxBlinkTicks periods
MaxBlinkTicks == 55

\* blinkState is a uint8_t; 0..3 are the phases of a blink
BlinkPhases == {0, 1, 2, 3, 4, 255}

\* startBlinkMs_: long past, now, within a second from now, and the largest
\* uint32_t
BlinkStarts == {0, BootMillis, BootMillis + 900, -1}

\* endBlinkMs_: before every start but the first, one closing phase from
\* now, a second after the latest valid start, and the largest uint32_t
BlinkEnds == {0, BootMillis + 300, BootMillis + 1900, -1}

\* blinkFadeBrightness_ in millionths: dark, half, full, and above full
BlinkFades == {0, FadeOne \div 2, FadeOne, 2 * FadeOne}

BlinkDevice(blinking, phase, start, end, fade) ==
  [InitDevice(BootMillis, TRUE, TRUE, DefaultDraw.blink) EXCEPT
     !.isBlinking = blinking,
     !.blinkState = phase,
     !.startBlinkMs_ = start,
     !.endBlinkMs_ = end,
     !.blinkFadeBrightness_ = fade]

InitBlink ==
  \E blinking \in BOOLEAN, phase \in BlinkPhases, start \in BlinkStarts,
     end \in BlinkEnds, fade \in BlinkFades :
    Start({[i \in {"A"} |-> BlinkDevice(blinking, phase, start, end, fade)]},
          {b \in Budgets(MaxBlinkTicks, 0, {}, FALSE, 0) : b.lag = 0})

NextBlink ==
  \/ Tick(BUTTON_POLL_MS)
  \/ \E i \in DOMAIN dev : Iterate(i)

SpecBlink == InitBlink /\ [][NextBlink]_vars

\* the step in which the loop() of a device that is due to run does run, as
\* the schedule tells it
LoopRuns ==
  \E i \in DOMAIN dev :
    /\ i \notin sched.ran
    /\ sched' = [sched EXCEPT !.ran = @ \cup {i}]

\* loop() runs again and again, and time advances, for as long as the bound
\* on the periods allows
SpecBlinkLive ==
  SpecBlink /\ WF_vars(Tick(BUTTON_POLL_MS)) /\ WF_sched(LoopRuns)

\* the blink machine as it runs from setup(): one working device whose
\* loop() runs every BUTTON_POLL_MS for MaxRunTicks periods, long enough for
\* the first blink to start and end, and whose center button is pressed at
\* any one moment
MaxRunTicks == 55

InitRun == Start(BootAllUp({"A"}), Budgets(MaxRunTicks, 1, {CENTER}, FALSE, 0))

NextRun ==
  \/ Tick(BUTTON_POLL_MS)
  \/ \E i \in DOMAIN dev : Button(i, CENTER)
  \/ \E i \in DOMAIN dev : Iterate(i)

SpecRun == InitRun /\ [][NextRun]_vars

\* the receive callback running while loop() is broadcasting.  The callback
\* is called from the radio's task and loop() from the sketch's; the sketch
\* takes no lock and the shared globals are plain variables, so the
\* statements of OnDataRecv (lines 116-167) interleave with those of
\* loop()'s sync block (lines 520-535) and of broadcastSync (lines 391-422)
\* in every order.  A device carries the position of each in:
\*   recvAt    0: the callback is not running; 1..4: it has adopted
\*             incoming and will next write bootTime (1), the pattern (2),
\*             the brightness (3), the hue and fast mode (4)
\*   incoming  the message the callback was called with
\*   stateChanged  the callback's local of that name
\*   syncAt    0: loop() is not in its sync block; 1..5: it has found the
\*             broadcast due and will next write syncData.timestamp (1),
\*             .pattern (2), .brightness (3), .colorOffset (4), and send (5)
\*   syncData  the global the message is assembled in
\*   held      the (timestamp, pattern, brightness, hue) values the device
\*             has held together at some moment so far
\* Time stands still: the statements take microseconds.
MaxRaceMsgs == 2

RaceDevice(d) ==
  d @@ [recvAt |-> 0, incoming |-> NoMsg, stateChanged |-> FALSE,
        syncAt |-> 0, syncData |-> NoMsg,
        held |-> {SyncMessage(d, d.millis)}]

InitRace ==
  Start({[i \in {"A"} |-> RaceDevice(b[i])] : b \in BootAllUp({"A"})},
        {b \in Budgets(0, 0, {}, FALSE, MaxRaceMsgs) : b.lag = 0})

\* one statement of either task has run on device i and left it as d1
RaceStep(i, d1, act) ==
  /\ dev' = [dev EXCEPT ![i] = [d1 EXCEPT !.held = @ \cup {SyncMessage(d1, d1.millis)}]]
  /\ last' = [NoStep EXCEPT !.act = act, !.i = i]
  /\ UNCHANGED env

\* lines 116-123 and 129: the callback is called with m, finds its timestamp
\* newer and sets syncPending
RecvEnter(i, m) ==
  LET d == dev[i]
  IN  /\ sched.msgs > 0
      /\ d.espNowUp
      /\ d.recvAt = 0
      /\ Adopts(d, d.millis, m)
      /\ RaceStep(i, [d EXCEPT !.syncPending = TRUE, !.incoming = m,
                               !.stateChanged = FALSE, !.recvAt = 1], "RecvEnter")
      /\ sched' = [sched EXCEPT !.msgs = @ - 1]
      /\ UNCHANGED net

\* line 127
RecvClock(i) ==
  LET d == dev[i]
  IN  /\ d.recvAt = 1
      /\ RaceStep(i, [d EXCEPT !.bootTime = AdoptClock(d.millis, d.incoming.timestamp),
                               !.recvAt = 2], "RecvClock")
      /\ UNCHANGED <<net, sched>>

\* lines 132-137
RecvPattern(i) ==
  LET d == dev[i]
  IN  /\ d.recvAt = 2
      /\ RaceStep(i, IF d.currentPattern # d.incoming.pattern
                     THEN [d EXCEPT !.currentPattern = d.incoming.pattern,
                                    !.lastPatternChange = d.millis,
                                    !.stateChanged = TRUE,
                                    !.recvAt = 3]
                     ELSE [d EXCEPT !.recvAt = 3], "RecvPattern")
      /\ UNCHANGED <<net, sched>>

\* lines 140-144
RecvBrightness(i) ==
  LET d == dev[i]
  IN  /\ d.recvAt = 3
      /\ RaceStep(i, IF d.brightness # d.incoming.brightness
                     THEN SinkCall([d EXCEPT !.brightness = d.incoming.brightness,
                                             !.stateChanged = TRUE,
                                             !.recvAt = 4], {"setBrightness"})
                     ELSE [d EXCEPT !.recvAt = 4], "RecvBrightness")
      /\ UNCHANGED <<net, sched>>

\* lines 147-166
RecvColor(i) ==
  LET d == dev[i]
      changed == d.stateChanged \/ d.colorPosition # d.incoming.colorOffset
  IN  /\ d.recvAt = 4
      /\ RaceStep(i, [AdoptFastMode(AdoptColor(d, d.incoming), d.millis, changed)
                        EXCEPT !.recvAt = 0], "RecvColor")
      /\ UNCHANGED <<net, sched>>

\* lines 520-534: an awake device's loop() finds the broadcast due and calls
\* broadcastSync, which goes on past its test of espNowInitialized (line 393)
SyncEnter(i) ==
  LET d  == dev[i]
      cm == d.millis
  IN  /\ d.syncAt = 0
      /\ ~d.inSleepMode
      /\ BroadcastDue(d, cm, ModU(LogicalMs(d, cm), 1000), SyncInterval(d))
      /\ RaceStep(i, [d EXCEPT !.syncData = NoMsg, !.syncAt = 1], "SyncEnter")
      /\ UNCHANGED <<net, sched>>

\* line 408
SyncTimestamp(i) ==
  LET d == dev[i]
  IN  /\ d.syncAt = 1
      /\ RaceStep(i, [d EXCEPT !.syncData.timestamp = LogicalNow(d, d.millis),
                               !.syncAt = 2], "SyncTimestamp")
      /\ UNCHANGED <<net, sched>>

\* line 409
SyncPattern(i) ==
  LET d == dev[i]
  IN  /\ d.syncAt = 2
      /\ RaceStep(i, [d EXCEPT !.syncData.pattern = ToU8(d.currentPattern),
                               !.syncAt = 3], "SyncPattern")
      /\ UNCHANGED <<net, sched>>

\* line 410
SyncBrightness(i) ==
  LET d == dev[i]
  IN  /\ d.syncAt = 3
      /\ RaceStep(i, [d EXCEPT !.syncData.brightness = ToU8(d.brightness),
                               !.syncAt = 4], "SyncBrightness")
      /\ UNCHANGED <<net, sched>>

\* line 414
SyncColor(i) ==
  LET d == dev[i]
  IN  /\ d.syncAt = 4
      /\ RaceStep(i, [d EXCEPT !.syncData.colorOffset =
                                 ToU8(IF d.useCustomColor THEN d.colorPosition
                                                          ELSE d.baseColorOffset),
                               !.syncAt = 5], "SyncColor")
      /\ UNCHANGED <<net, sched>>

\* lines 422-426 and 527 or 534: the send, which succeeds
SyncSend(i) ==
  LET d == dev[i]
  IN  /\ d.syncAt = 5
      /\ d.espNowUp
      /\ RaceStep(i, [d EXCEPT !.errorCount = 0,
                               !.sent = Append(@, [msg |-> d.syncData, ok |-> TRUE,
                                                   reinit |-> "none"]),
                               !.lastSyncTime = d.millis,
                               !.syncAt = 0], "SyncSend")
      /\ net' = [net EXCEPT ![i] = [msg |-> d.syncData, at |-> d.millis, got |-> {}]]
      /\ UNCHANGED sched

NextRace ==
  \/ \E i \in DOMAIN dev : \E m \in ReceivableMsgs(dev[i]) : RecvEnter(i, m)
  \/ \E i \in DOMAIN dev : RecvClock(i)
  \/ \E i \in DOMAIN dev : RecvPattern(i)
  \/ \E i \in DOMAIN dev : RecvBrightness(i)
  \/ \E i \in DOMAIN dev : RecvColor(i)
  \/ \E i \in DOMAIN dev : SyncEnter(i)
  \/ \E i \in DOMAIN dev : SyncTimestamp(i)
  \/ \E i \in DOMAIN dev : SyncPattern(i)
  \/ \E i \in DOMAIN dev : SyncBrightness(i)
  \/ \E i \in DOMAIN dev : SyncColor(i)
  \/ \E i \in DOMAIN dev : SyncSend(i)

SpecRace == InitRace /\ [][NextRace]_vars

\* the hue assignments of OnDataRecv (lines 147-158), statement by
\* statement, interleaved with two blocks of loop(): the reset of
\* syncPending (lines 545-549) and the hue transition (lines 562-617).  The
\* callback goes through positions 1..4 of recvAt as above and then
\*   recvAt    4: it will next compare colorPosition with the received hue
\*             (line 147); 5..7: they differ and it will next write
\*             baseColorOffset (5), targetColorOffset (6), colorPosition and
\*             fast mode (7)
\* The device has run its first iteration of loop() at BootMillis, drawn its
\* first frame and broadcast; it is FAST_SYNC_INTERVAL ms later, and time
\* stands still.
TearDevice(b) ==
  LET d == LoopTally(loop(Clear(b), BootMillis, BootMillis,
                          [encoder |-> 0, btn |-> [x \in Buttons |-> FALSE]],
                          DefaultDraw, [sendOk |-> TRUE, reinitOk |-> TRUE]),
                     BootMillis)
  IN  RaceDevice([d EXCEPT !.millis = Add32(BootMillis, FAST_SYNC_INTERVAL)])

InitTear ==
  Start({[i \in {"A"} |-> TearDevice(b[i])] : b \in BootAllUp({"A"})},
        {b \in Budgets(0, 0, {}, FALSE, MaxRaceMsgs) : b.lag = 0})

\* line 147: the test of colorPosition; lines 162-166 when it is equal
HueTest(i) ==
  LET d == dev[i]
  IN  /\ d.recvAt = 4
      /\ RaceStep(i, IF d.colorPosition # d.incoming.colorOffset
                     THEN [d EXCEPT !.recvAt = 5]
                     ELSE [AdoptFastMode(d, d.millis, d.stateChanged)
                             EXCEPT !.recvAt = 0], "HueTest")
      /\ UNCHANGED <<net, sched>>

\* line 154
HueBase(i) ==
  LET d == dev[i]
  IN  /\ d.recvAt = 5
      /\ RaceStep(i, [d EXCEPT !.baseColorOffset = d.incoming.colorOffset,
                               !.recvAt = 6], "HueBase")
      /\ UNCHANGED <<net, sched>>

\* line 155
HueTarget(i) ==
  LET d == dev[i]
  IN  /\ d.recvAt = 6
      /\ RaceStep(i, [d EXCEPT !.targetColorOffset = d.incoming.colorOffset,
                               !.recvAt = 7], "HueTarget")
      /\ UNCHANGED <<net, sched>>

\* lines 156-166
HuePosition(i) ==
  LET d == dev[i]
  IN  /\ d.recvAt = 7
      /\ RaceStep(i, [AdoptFastMode([d EXCEPT !.colorPosition = d.incoming.colorOffset,
                                              !.useCustomColor = TRUE],
                                    d.millis, TRUE)
                        EXCEPT !.recvAt = 0], "HuePosition")
      /\ UNCHANGED <<net, sched>>

\* lines 545-549 of an iteration of an awake device's loop() that sampled
\* currentMillis and millisInCurrentSecond just now
LoopPending(i) ==
  LET d  == dev[i]
      cm == d.millis
  IN  /\ ~d.inSleepMode
      /\ d.syncPending
      /\ RaceStep(i, ResetSyncPending(d, cm, ModU(LogicalMs(d, cm), 1000),
                                      SyncInterval(d)), "LoopPending")
      /\ UNCHANGED <<net, sched>>

\* lines 562-617 of the same iteration
LoopTransition(i) ==
  LET d == dev[i]
  IN  /\ d.baseColorOffset # d.targetColorOffset
      /\ RaceStep(i, ColorTransition(d, d.millis), "LoopTransition")
      /\ UNCHANGED <<net, sched>>

NextTear ==
  \/ \E i \in DOMAIN dev : \E m \in ReceivableMsgs(dev[i]) : RecvEnter(i, m)
  \/ \E i \in DOMAIN dev : RecvClock(i)
  \/ \E i \in DOMAIN dev : RecvPattern(i)
  \/ \E i \in DOMAIN dev : RecvBrightness(i)
  \/ \E i \in DOMAIN dev : HueTest(i)
  \/ \E i \in DOMAIN dev : HueBase(i)
  \/ \E i \in DOMAIN dev : HueTarget(i)
  \/ \E i \in DOMAIN dev : HuePosition(i)
  \/ \E i \in DOMAIN dev : LoopPending(i)
  \/ \E i \in DOMAIN dev : LoopTransition(i)

SpecTear == InitTear /\ [][NextTear]_vars

\* one working device, awake or asleep, whose center button is pressed once
\* and then held or released (two changes of the button): the whole
\* behaviour holds one press
MaxHoldTicks == 4

Holder == "A"

\* the state a device shares with its group (lines 408-414), its clock as
\* bootTime, and its sync cadence
Shared(d) ==
  [pattern |-> d.currentPattern, hue |-> d.colorPosition,
   brightness |-> d.brightness, bootTime |-> d.bootTime, fast |-> d.fastSyncMode]

\* before: what the device shared, whether it had drawn its first frame and
\* whether it was asleep, just before its center button was last pressed
HoldDevice(d) ==
  d @@ [before |-> [shared |-> Shared(d), drawn |-> d.initialColorSet,
                    asleep |-> d.inSleepMode]]

InitHold ==
  Start({[i \in {Holder} |-> HoldDevice(b[i])] : b \in BootAllUp({Holder})}
          \cup {[i \in {Holder} |-> HoldDevice(Clear(enterSleepMode(b[i])))] :
                   b \in BootAllUp({Holder})},
        {b \in Budgets(MaxHoldTicks, 2, {CENTER}, FALSE, 0) : b.lag = 0})

\* the center button is pressed or released
Press(i) ==
  /\ sched.inputs > 0
  /\ dev[i].anoAvailable
  /\ env' = [env EXCEPT ![i].btn[CENTER] = ~@]
  /\ dev' = [dev EXCEPT ![i].before =
                IF env[i].btn[CENTER] THEN @
                ELSE [shared |-> Shared(dev[i]), drawn |-> dev[i].initialColorSet,
                      asleep |-> dev[i].inSleepMode]]
  /\ sched' = [sched EXCEPT !.inputs = @ - 1, !.ran = @ \ {i}]
  /\ last' = [NoStep EXCEPT !.act = "Button", !.i = i]
  /\ UNCHANGED net

NextHold ==
  \/ \E step \in {BUTTON_POLL_MS, BUTTON_HOLD_TIME} : Tick(step)
  \/ \E i \in DOMAIN dev : Press(i)
  \/ \E i \in DOMAIN dev : Iterate(i)

SpecHold == InitHold /\ [][NextHold]_vars

\* a device in a group that has converged, whose loop() runs every
\* FollowStep ms and which hears a peer whose logical clock is up to
\* PeerLead ms ahead of its own: the peer reaches each second mark first and
\* broadcasts the new second with the state the group shares
FollowStep == 10

PeerLead == 20

MaxFollowTicks == 250

MaxFollowMsgs == 2

InitFollow ==
  Start(BootAllUp({"A"}),
        {b \in Budgets(MaxFollowTicks, 0, {}, FALSE, MaxFollowMsgs) : b.lag = 0})

\* the peer's broadcast of the coming second reaches device i
PeerAhead(i) ==
  LET d == dev[i]
  IN  /\ ModU(LogicalMs(d, d.millis), 1000) >= 1000 - PeerLead
      /\ Recv(i, [SyncMessage(d, d.millis) EXCEPT
                    !.timestamp = Add32(LogicalNow(d, d.millis), 1)])

NextFollow ==
  \/ Tick(FollowStep)
  \/ \E i \in DOMAIN dev : Iterate(i)
  \/ \E i \in DOMAIN dev : PeerAhead(i)

SpecFollow == InitFollow /\ [][NextFollow]_vars

\* loop() runs again and again, and time advances, for as long as the bound
\* on the ticks allows; nothing is assumed of the peer
SpecFollowLive ==
  SpecFollow /\ WF_vars(Tick(FollowStep)) /\ WF_sched(LoopRuns)

\* a device, awake or asleep, whose loop() runs every FollowStep ms and
\* which receives one message at any moment: a newer one sets syncPending,
\* and puts the device into fast mode if its contents differ
MaxPendingTicks == 14

MaxPendingMsgs == 1

InitPending ==
  Start(BootAllUp({"A"}) \cup {[i \in {"A"} |-> Clear(enterSleepMode(b[i]))] : b \in BootAllUp({"A"})},
        {b \in Budgets(MaxPendingTicks, 0, {}, FALSE, MaxPendingMsgs) : b.lag = 0})

NextPending ==
  \/ Tick(FollowStep)
  \/ \E i \in DOMAIN dev : Iterate(i)
  \/ \E i \in DOMAIN dev : \E m \in ReceivableMsgs(dev[i]) : Recv(i, m)

SpecPending == InitPending /\ [][NextPending]_vars

\* loop() runs again and again, and time advances, for as long as the bound
\* on the ticks allows
SpecPendingLive ==
  SpecPending /\ WF_vars(Tick(FollowStep)) /\ WF_sched(LoopRuns)

\* the hue transition run again and again: one device that starts at any
\* hue with its target at one of GlideTargets and syncPending false, whose
\* transition runs once every GlideStep ms (the transition delay of line
\* 583) for MaxGlideTicks periods
GlideStep == 25

GlideTargets == {0, 128, 255}

MaxGlideTicks == 68

InitGlide ==
  \E b \in Hues, t \in GlideTargets :
    Start({[i \in {"A"} |-> HueDevice(b, t, FALSE, 0)]},
          {x \in Budgets(MaxGlideTicks, 0, {}, FALSE, 0) : x.lag = 0})

NextGlide ==
  \/ Tick(GlideStep)
  \/ \E i \in DOMAIN dev : Transition(i)

SpecGlide == InitGlide /\ [][NextGlide]_vars

\* the step in which the transition of a device that is due to run does run
TransitionRuns ==
  \E i \in DOMAIN dev :
    /\ i \notin sched.ran
    /\ sched' = [sched EXCEPT !.ran = @ \cup {i}]

\* the transition runs again and again, and time advances, for as long as
\* the bound on the periods allows
SpecGlideLive ==
  SpecGlide /\ WF_vars(Tick(GlideStep)) /\ WF_sched(TransitionRuns)

----------------------------------------------------------------------------
(* Properties of the receive callback, under SpecRecv *)

\* device i has just received a message with a timestamp newer than its
\* logical time
HeardNewer(i) == last.act = "Recv" /\ last.i = i /\ last.rel = "newer"

\* the same of the step being taken, and a step in which device i receives a
\* message that is not newer
RecvNewer(i) == last'.act = "Recv" /\ last'.i = i /\ last'.rel = "newer"

RecvOther(i) == last'.act = "Recv" /\ last'.i = i /\ last'.rel # "newer"

C2_RejectChangesNothing ==
  [][\A i \in DOMAIN dev :
       RecvOther(i) =>
         /\ dev'[i].currentPattern = dev[i].currentPattern
         /\ dev'[i].brightness = dev[i].brightness
         /\ dev'[i].colorPosition = dev[i].colorPosition
         /\ dev'[i].baseColorOffset = dev[i].baseColorOffset
         /\ dev'[i].targetColorOffset = dev[i].targetColorOffset
         /\ dev'[i].bootTime = dev[i].bootTime
         /\ dev'[i].syncPending = dev[i].syncPending
         /\ dev'[i].fastSyncMode = dev[i].fastSyncMode
         /\ dev'[i].lastChangeTime = dev[i].lastChangeTime]_vars

\* a device that has never adopted a message, in fast mode after a local
\* change, has just discarded a message that ties with its logical time
C2_Witness ==
  /\ last.act = "Recv" /\ last.rel = "tie" /\ ~last.adopted
  /\ dev[last.i].heard = NoMsg
  /\ dev[last.i].fastSyncMode

\* C8 -- on adopting a newer message the receiver enters fast mode
\* (fastSyncMode = true, lastChangeTime = now) if and only if the message's
\* pattern, brightness or hue differs from the receiver's; when all three
\* are the receiver's own, fastSyncMode and lastChangeTime stay as they were.
C8_FastModeIffChanged ==
  [][\A i \in DOMAIN dev :
       RecvNewer(i) =>
         LET m == dev'[i].heard
             differs == \/ dev[i].currentPattern # m.pattern
                        \/ dev[i].brightness # m.brightness
                        \/ dev[i].colorPosition # m.colorOffset
         IN  IF differs
             THEN /\ dev'[i].fastSyncMode
                  /\ dev'[i].lastChangeTime = dev[i].millis
             ELSE /\ dev'[i].fastSyncMode = dev[i].fastSyncMode
                  /\ dev'[i].lastChangeTime = dev[i].lastChangeTime]_vars

\* a device in normal mode has just adopted a newer message that carries its
\* own pattern, brightness and hue, and is still in normal mode
C8_Witness ==
  /\ HeardNewer(last.i) /\ last.adopted /\ ~last.differs
  /\ dev[last.i].syncPending
  /\ ~dev[last.i].fastSyncMode

\* C9 -- clock adoption: right after a message with timestamp ts is adopted,
\* millis - bootTime = ts * 1000 + 50 in uint32 arithmetic and the logical
\* time equals ts, for every 32-bit ts.
C9_ClockAdopted ==
  \A i \in DOMAIN dev :
    HeardNewer(i) =>
      LET ts == dev[i].heard.timestamp
      IN  /\ Sub32(dev[i].millis, dev[i].bootTime) = Add32(Mul32(ts, 1000), ADOPT_DELAY_MS)
          /\ LogicalNow(dev[i], dev[i].millis) = ts

\* C10 -- duplicates and reordering: a message delivered again after it was
\* adopted leaves the receiver as it was, and a message with a smaller
\* timestamp than the message adopted before it leaves pattern, brightness
\* and hue as they were.
C10_DuplicatesAndReordering ==
  [][\A i \in DOMAIN dev :
       last'.act = "Recv" /\ last'.i = i =>
         /\ last'.repeat => Clear(dev'[i]) = Clear(dev[i])
         /\ last'.stale =>
              /\ dev'[i].currentPattern = dev[i].currentPattern
              /\ dev'[i].brightness = dev[i].brightness
              /\ dev'[i].colorPosition = dev[i].colorPosition
              /\ dev'[i].baseColorOffset = dev[i].baseColorOffset
              /\ dev'[i].targetColorOffset = dev[i].targetColorOffset]_vars

----------------------------------------------------------------------------
(* Properties of local changes and of fast mode *)

\* the step being taken is an iteration of loop() on device i, and the value
\* of currentMillis in it
Looping(i) == last'.act = "Loop" /\ last'.i = i

CurrentMillis(i) == Sub32(dev[i].millis, last'.lag)

\* the iteration polls the inputs
Polling(i) ==
  /\ Looping(i)
  /\ dev[i].anoAvailable
  /\ GeU(Sub32(CurrentMillis(i), dev[i].lastButtonCheck), BUTTON_POLL_MS)

\* what the poll finds: the buttons with a press edge, and whether the
\* encoder position changed
PressEdges(i) == {b \in Buttons : env[i].btn[b] /\ ~dev[i].lastButtons[b]}

Turned(i) == env[i].encoder # dev[i].lastPosition

LocalChanges(i) == Cardinality(PressEdges(i)) + (IF Turned(i) THEN 1 ELSE 0)

\* the local changes that advance the clock: an encoder change more than
\* ENCODER_THROTTLE_MS after the last one that did, a press of the center
\* button on a device that is awake, a press of any other button
Promotions(i) ==
  Cardinality(PressEdges(i) \ {CENTER})
    + (IF CENTER \in PressEdges(i) /\ ~dev[i].inSleepMode THEN 1 ELSE 0)
    + (IF Turned(i) /\ GtU(Sub32(dev[i].millis, dev[i].lastEncoderUpdate), ENCODER_THROTTLE_MS)
       THEN 1 ELSE 0)

\* C5 as claimed -- every local state change (a press edge of any of the five
\* buttons, every change of the encoder position) raises the logical time by
\* exactly 2 seconds.
C5_EveryChangePromotes ==
  [][\A i \in DOMAIN dev :
       Polling(i) /\ LocalChanges(i) > 0 =>
         LogicalNow(dev'[i], dev[i].millis)
           = Add32(LogicalNow(dev[i], dev[i].millis), PROMOTE_SECONDS * LocalChanges(i))]_vars

\* C5 -- self-promotion: an iteration of loop() raises the logical time by
\* exactly 2 seconds for every press edge of the up, down, left or right
\* button, for a press edge of the center button while the device is awake,
\* and for an encoder change polled more than 500 ms after the last encoder
\* change that raised it, as long as the result fits the 32-bit millisecond
\* clock; it does not raise it for an encoder change within those 500 ms, for
\* the center press that wakes a sleeping device, or without a local change.
C5_PromotionByTwo ==
  [][\A i \in DOMAIN dev :
       Looping(i) =>
         LET n     == IF Polling(i) THEN Promotions(i) ELSE 0
             after == LogicalNow(dev[i], dev[i].millis) + PROMOTE_SECONDS * n
         IN  (LogicalNow(dev[i], dev[i].millis) >= 0 /\ after <= MaxLogicalSeconds)
               => LogicalNow(dev'[i], dev[i].millis) = after]_vars

\* a sleeping device has just been woken by a press of the center button:
\* its state was randomized and its logical clock was not advanced
C5_Witness ==
  /\ last.act = "Loop"
  /\ dev[last.i].lastButtons[CENTER] /\ ~dev[last.i].inSleepMode
  /\ dev[last.i].buttonPressStartTime = dev[last.i].millis
  /\ dev[last.i].lastChangeTime # dev[last.i].millis
  /\ LogicalNow(dev[last.i], dev[last.i].millis) = 4

\* C6 -- fast mode is entered whenever local state changes: after an
\* iteration of loop() that changed pattern, brightness or hue (a button
\* press, an encoder turn, the randomization on wake, the automatic pattern
\* cycling) fastSyncMode is true and lastChangeTime is the time of the change.
C6_FastModeOnLocalChange ==
  [][\A i \in DOMAIN dev :
       ( /\ Looping(i)
         /\ dev[i].initialColorSet
         /\ \/ dev'[i].currentPattern # dev[i].currentPattern
            \/ dev'[i].brightness # dev[i].brightness
            \/ dev'[i].colorPosition # dev[i].colorPosition )
       => /\ dev'[i].fastSyncMode
          /\ GeU(dev'[i].lastChangeTime, CurrentMillis(i))
          /\ LeU(dev'[i].lastChangeTime, dev[i].millis)]_vars

\* C7 -- fast mode lasts for 30 seconds of inactivity: a local or adopted
\* change sets lastChangeTime to its time and fastSyncMode; an iteration of
\* loop(), awake or asleep, leaves fastSyncMode true while no more than
\* 30000 ms have passed since lastChangeTime and clears it when more have.
C7_FastModeWindow ==
  [][\A i \in DOMAIN dev :
       /\ RecvNewer(i) /\ last'.differs =>
            dev'[i].fastSyncMode /\ dev'[i].lastChangeTime = dev[i].millis
       /\ Looping(i) =>
            LET on == dev[i].fastSyncMode \/ dev'[i].lastChangeTime # dev[i].lastChangeTime
                since == dev'[i].lastChangeTime
            IN  /\ on /\ LeU(Sub32(dev[i].millis, since), FAST_MODE_WINDOW)
                     => dev'[i].fastSyncMode
                /\ LeU(since, CurrentMillis(i))
                   /\ GtU(Sub32(CurrentMillis(i), since), FAST_MODE_WINDOW)
                     => ~dev'[i].fastSyncMode]_vars

----------------------------------------------------------------------------
(* Properties of a group of two devices, under SpecNet *)

\* the step being taken delivers the last broadcast of device i to device j
Delivering(i, j) == last'.act = "Deliver" /\ last'.i = j /\ last'.peer = i

\* C3 -- most-recent-change wins: when device i made a local change later
\* than device j's latest one, and a broadcast that i sent after that change
\* is delivered to j, then j holds the broadcast's pattern, brightness and
\* hue, whatever the earlier changes, also when both changed within the same
\* second.
C3_LatestChangeWins ==
  [][\A i \in DOMAIN dev, j \in DOMAIN dev :
       ( /\ Delivering(i, j)
         /\ GtU(dev[i].touched, dev[j].touched)
         /\ GeU(net[i].at, dev[i].touched) )
       => /\ dev'[j].currentPattern = net[i].msg.pattern
          /\ dev'[j].brightness = net[i].msg.brightness
          /\ dev'[j].colorPosition = net[i].msg.colorOffset]_vars

\* every device is awake with its transport up
AllAwake == \A i \in DOMAIN dev : ~dev[i].inSleepMode /\ dev[i].espNowUp

\* every input has been polled
InputsPolled ==
  \A i \in DOMAIN dev :
    /\ env[i].encoder = dev[i].lastPosition
    /\ \A b \in Buttons : env[i].btn[b] = dev[i].lastButtons[b]

\* since the last local change of any device, every device has broadcast
\* and the broadcast has been delivered to every peer
RoundDelivered ==
  \A i \in DOMAIN dev, j \in DOMAIN dev :
    /\ GeU(net[i].at, dev[j].touched) /\ net[i].at > 0
    /\ i # j => j \in net[i].got

\* the devices' logical clocks are exactly equal
ClocksEqual == \A i \in DOMAIN dev, j \in DOMAIN dev : dev[i].bootTime = dev[j].bootTime

SameAppearance ==
  \A i \in DOMAIN dev, j \in DOMAIN dev :
    /\ dev[i].currentPattern = dev[j].currentPattern
    /\ dev[i].brightness = dev[j].brightness
    /\ dev[i].colorPosition = dev[j].colorPosition

\* C4 -- eventual convergence, for devices whose logical clocks are exactly
\* equal: once local changes have stopped and every device's broadcast has
\* been delivered to every peer, all awake devices hold the same pattern,
\* brightness and hue.  (With equal clocks every later broadcast compares
\* as the delivered one did: the clocks advance together and a discarded
\* message changes neither.)
C4_Converges ==
  AllAwake /\ InputsPolled /\ RoundDelivered /\ ClocksEqual => SameAppearance

----------------------------------------------------------------------------
(* Properties of the broadcast cadence, under SpecSync *)

\* the iteration of loop() being taken on device i calls broadcastSync
Broadcasts(i) == Looping(i) /\ dev'[i].sent # << >>

\* millisInCurrentSecond of the iteration, line 484
MillisInSecond(i) == ModU(Sub32(CurrentMillis(i), dev'[i].bootTime), 1000)

\* C11 -- normal-mode cadence: an iteration of loop() that broadcasts with
\* fastSyncMode false has (currentMillis - bootTime) % 1000 < 100, and at
\* least 1000 ms of wall-clock time have passed since the device's previous
\* broadcast.
C11_NormalCadence ==
  [][\A i \in DOMAIN dev :
       Broadcasts(i) /\ ~dev'[i].fastSyncMode =>
         /\ MillisInSecond(i) < 100
         /\ net[i].at > 0 => GeU(Sub32(dev[i].millis, net[i].at), SYNC_INTERVAL)]_vars

\* C12 as claimed -- a local change sets syncPending, and the iteration of
\* loop() that polls it sends no broadcast.
C12_ChangeSetsPending ==
  [][\A i \in DOMAIN dev :
       Polling(i) /\ Promotions(i) > 0 =>
         dev'[i].syncPending /\ dev'[i].sent = << >>]_vars

\* the condition on which an iteration of loop() clears syncPending: in fast
\* mode FAST_SYNC_INTERVAL has passed since lastSyncTime, in normal mode the
\* first 100 ms of the logical second are over; asleep, only with the
\* transport initialised
PendingWindowOver(i) ==
  /\ \/ /\ dev'[i].fastSyncMode
        /\ GeU(Sub32(CurrentMillis(i), dev'[i].lastSyncTime), FAST_SYNC_INTERVAL)
     \/ ~dev'[i].fastSyncMode /\ MillisInSecond(i) >= 100
  /\ dev'[i].inSleepMode => dev'[i].espNowInitialized

\* C12 -- the syncPending guard: syncPending is set by OnDataRecv when it
\* adopts a message with a newer timestamp and never by an iteration of
\* loop(), so not by a local change; an iteration of loop() that starts with
\* syncPending set sends no broadcast, and it clears syncPending exactly
\* when the window is over.
C12_PendingSuppresses ==
  [][\A i \in DOMAIN dev :
       /\ RecvNewer(i) => dev'[i].syncPending
       /\ Looping(i) /\ ~dev[i].syncPending => ~dev'[i].syncPending
       /\ Looping(i) /\ dev[i].syncPending =>
            /\ dev'[i].sent = << >>
            /\ dev'[i].syncPending = ~PendingWindowOver(i)]_vars

\* a device that adopted a changed message before it ever broadcast has run
\* loop() awake and in fast mode: the broadcast that was due was held back
\* (lastSyncTime is still 0) and syncPending has been cleared
C12_Witness ==
  /\ last.act = "Loop"
  /\ dev[last.i].heard # NoMsg
  /\ dev[last.i].espNowInitialized /\ ~dev[last.i].inSleepMode
  /\ dev[last.i].fastSyncMode /\ ~dev[last.i].syncPending
  /\ dev[last.i].lastSyncTime = 0
  /\ dev[last.i].sent = << >>

----------------------------------------------------------------------------
(* Properties of the sleep controller *)

\* the step being taken runs a handler (an iteration of loop() or the
\* receive callback) on device i, which is asleep before and after it
RunsAsleep(i) ==
  /\ last'.act \in {"Loop", "Recv", "Deliver"} /\ last'.i = i
  /\ dev[i].inSleepMode /\ dev'[i].inSleepMode

\* C13 -- sleep suppresses rendering: between the blanking of
\* enterSleepMode and the wake, no handler calls the pixel sink
\* (setPixelColor, show, setBrightness), whatever time passes, whatever
\* buttons are pressed and whatever messages are received.
C13_SleepSuppressesRendering ==
  [][\A i \in DOMAIN dev : RunsAsleep(i) => dev'[i].sink = {}]_vars

\* C14 -- a device that is asleep sends no broadcast: the handler that left
\* it asleep (an iteration of loop() that found it asleep or put it to
\* sleep, or the receive callback) handed no message to esp_now_send,
\* whatever fastSyncMode, syncPending and lastSyncTime are and whatever
\* buttons are pressed.
C14_AsleepSendsNothing ==
  \A i \in DOMAIN dev : dev[i].inSleepMode => dev[i].sent = << >>

\* a sleeping device has polled a press of the up button: it is in fast
\* mode with lastSyncTime reset, syncPending clear and the transport
\* initialised, so that an awake device would have broadcast
C14_Witness ==
  /\ last.act = "Loop"
  /\ dev[last.i].inSleepMode /\ dev[last.i].espNowInitialized
  /\ dev[last.i].lastButtons[1]
  /\ dev[last.i].fastSyncMode /\ ~dev[last.i].syncPending
  /\ dev[last.i].lastSyncTime = 0

\* the iteration of loop() being taken on device i polls the center button
\* pressed, as the previous poll did (a sustained hold, no new press edge),
\* and for how long it has then been held since the poll that saw the press
CenterHeld(i) ==
  Polling(i) /\ env[i].btn[CENTER] /\ dev[i].lastButtons[CENTER]

HeldFor(i) == Sub32(dev[i].millis, dev[i].buttonPressStartTime)

\* C15 -- long press: an awake device goes to sleep in an iteration of
\* loop() exactly when that iteration polls the center button held, with no
\* release polled, for at least BUTTON_HOLD_TIME since the poll that saw the
\* press (so on the first such poll, and never for a press released
\* earlier); however long the button then stays held the device stays
\* asleep.
C15_LongPressSleepsOnce ==
  [][\A i \in DOMAIN dev :
       Looping(i) =>
         /\ ~dev[i].inSleepMode =>
              (dev'[i].inSleepMode <=>
                 CenterHeld(i) /\ GeU(HeldFor(i), BUTTON_HOLD_TIME))
         /\ dev[i].inSleepMode /\ CenterHeld(i) => dev'[i].inSleepMode]_vars

\* a press that started on the awake device (it is the last change) has
\* been held for twice the hold time: the device went to sleep and the
\* later poll of the held button left it asleep
C15_Witness ==
  /\ last.act = "Loop"
  /\ dev[last.i].inSleepMode
  /\ dev[last.i].lastButtons[CENTER] /\ dev[last.i].longPressHandled
  /\ dev[last.i].lastChangeTime = dev[last.i].buttonPressStartTime
  /\ GeU(Sub32(dev[last.i].millis, dev[last.i].buttonPressStartTime), 2 * BUTTON_HOLD_TIME)
  /\ dev[last.i].lastButtonCheck = dev[last.i].millis

\* C16 -- wake on press: a sleeping device wakes in a handler exactly when
\* that handler is an iteration of loop() whose poll sees the press edge of
\* the center button, with no hold time; a release, a sustained hold, a
\* press of another button, an iteration without a poll and a received
\* message leave it asleep.
C16_WakesOnPressEdge ==
  [][\A i \in DOMAIN dev :
       ( /\ last'.act \in {"Loop", "Recv", "Deliver"} /\ last'.i = i
         /\ dev[i].inSleepMode )
       => (~dev'[i].inSleepMode <=> Polling(i) /\ CENTER \in PressEdges(i))]_vars

\* a device has just been woken by the poll that saw the press: the hold
\* timer starts now, the wake flash was shown and the pattern redrawn at
\* random
C16_Witness ==
  /\ last.act = "Loop"
  /\ ~dev[last.i].inSleepMode
  /\ dev[last.i].lastButtons[CENTER] /\ ~dev[last.i].longPressHandled
  /\ dev[last.i].buttonPressStartTime = dev[last.i].millis
  /\ dev[last.i].lastUpdate = dev[last.i].millis
  /\ dev[last.i].lastPatternChange # dev[last.i].millis
  /\ "show" \in dev[last.i].sink

\* C17 -- waking forces fast-interval broadcasting: right after the
\* iteration of loop() that takes a device from asleep to awake,
\* fastSyncMode is true.
C17_WakeForcesFastMode ==
  [][\A i \in DOMAIN dev :
       Looping(i) /\ dev[i].inSleepMode /\ ~dev'[i].inSleepMode
         => dev'[i].fastSyncMode]_vars

----------------------------------------------------------------------------
(* Properties of broadcastSync's error handling, under SpecFault *)

\* the send of the iteration of loop() being taken on device i
Sending(i) == dev'[i].sent[1]

\* C18 as claimed -- a reinitialisation is attempted exactly when the
\* failing send is the 5th consecutive failure since the last successful
\* send.
C18_ReinitOnFifthFailure ==
  [][\A i \in DOMAIN dev :
       Broadcasts(i) /\ ~Sending(i).ok =>
         (Sending(i).reinit # "none" <=> dev[i].failures + 1 = MAX_SEND_ERRORS)]_vars

\* C18 -- broadcastSync makes one send; a send that succeeds attempts no
\* reinitialisation; a send that fails attempts one exactly when it is at
\* least the 5th failure in a row since the last send or reinitialisation
\* that succeeded: failures 1 to 4 attempt none, the 5th attempts one,
\* and after a reinitialisation that failed every further failure attempts
\* another (up to the 255th in a row: errorCount is a uint8_t).
C18_ReinitFromFifthFailure ==
  [][\A i \in DOMAIN dev :
       Broadcasts(i) =>
         /\ Len(dev'[i].sent) = 1
         /\ Sending(i).ok => Sending(i).reinit = "none"
         /\ ~Sending(i).ok /\ dev[i].streak + 1 < 256 =>
              (Sending(i).reinit # "none" <=> dev[i].streak + 1 >= MAX_SEND_ERRORS)]_vars

\* the 6th failure in a row, after the reinitialisation attempted on the
\* 5th failed, has attempted another reinitialisation
C18_Witness ==
  /\ last.act = "Loop"
  /\ dev[last.i].sent # << >>
  /\ dev[last.i].sent[1].reinit # "none"
  /\ dev[last.i].failures = MAX_SEND_ERRORS + 1
  /\ dev[last.i].streak = MAX_SEND_ERRORS + 1

----------------------------------------------------------------------------
(* Properties of the hue transition, under SpecHue *)

\* min(|target - current|, 256 - |target - current|)
CircularDistance(current, target) ==
  LET across == IF target >= current THEN target - current ELSE current - target
  IN  IF across <= 256 - across THEN across ELSE 256 - across

\* the step being taken runs the hue transition on device i
Transitioning(i) == last'.act = "Transition" /\ last'.i = i

\* C19 -- snap: one run of the hue transition with syncPending false and
\* baseColorOffset at a circular distance of 1 to 3 from targetColorOffset
\* ends with baseColorOffset equal to targetColorOffset, however recently
\* the last transition step ran.
C19_SnapsWithinThree ==
  [][\A i \in DOMAIN dev :
       ( /\ Transitioning(i)
         /\ ~dev[i].syncPending
         /\ dev[i].baseColorOffset # dev[i].targetColorOffset
         /\ CircularDistance(dev[i].baseColorOffset, dev[i].targetColorOffset) <= 3 )
       => /\ dev'[i].baseColorOffset = dev[i].targetColorOffset
          /\ dev'[i].targetColorOffset = dev[i].targetColorOffset]_vars

\* a device in the middle of a transition, whose last step had just run, has
\* snapped across the wrap of the wheel (from 254 to 1)
C19_Witness ==
  /\ last.act = "Transition"
  /\ dev[last.i].lastColorTransition = dev[last.i].millis
  /\ dev[last.i].baseColorOffset = 1
  /\ dev[last.i].targetColorOffset = 1

\* C20 -- circularity: the distance the transition computes for the hues a
\* device holds equals min(|target - current|, 256 - |target - current|),
\* is the same with the two exchanged, and is 0 when they are equal.
C20_Circularity ==
  \A i \in DOMAIN dev :
    LET a == dev[i].baseColorOffset
        b == dev[i].targetColorOffset
    IN  /\ HueDistance(a, b) = CircularDistance(a, b)
        /\ HueDistance(a, b) = HueDistance(b, a)
        /\ a = b => HueDistance(a, b) = 0

\* a device at hue 10 with target 250 (16 apart around the wheel, 240
\* across it) has taken the step of a short distance, by 1 and downwards
C20_Witness ==
  /\ last.act = "Transition"
  /\ dev[last.i].lastColorTransition = dev[last.i].millis
  /\ dev[last.i].baseColorOffset = 9
  /\ dev[last.i].targetColorOffset = 250

\* the transition delay of 25 ms has passed on device i since its last step
StepDue(i) == dev[i].millis - dev[i].lastColorTransition >= 25

\* C21 -- stepping: one run of the hue transition that takes a step
\* (syncPending false, circular distance d above 3, the transition delay
\* passed) moves baseColorOffset by 3 if d > 60, by 2 if 30 < d <= 60 and
\* by 1 otherwise, around the wheel in the direction that leaves the
\* circular distance at exactly d minus the step; the target is unchanged.
C21_StepsAlongShorterArc ==
  [][\A i \in DOMAIN dev :
       LET b == dev[i].baseColorOffset
           t == dev[i].targetColorOffset
           d == CircularDistance(b, t)
           s == IF d > 60 THEN 3 ELSE IF d > 30 THEN 2 ELSE 1
       IN  ( /\ Transitioning(i)
             /\ ~dev[i].syncPending
             /\ d > 3
             /\ StepDue(i) )
           => /\ dev'[i].baseColorOffset \in {(b + s) % 256, (b - s) % 256}
              /\ CircularDistance(dev'[i].baseColorOffset, t) = d - s
              /\ dev'[i].targetColorOffset = t
              /\ dev'[i].lastColorTransition = dev[i].millis]_vars

\* a device at hue 1 with target 217 (40 apart around the wheel) has
\* stepped by 2 downwards across the wrap, to 255
C21_Witness ==
  /\ last.act = "Transition"
  /\ dev[last.i].lastColorTransition = dev[last.i].millis
  /\ dev[last.i].baseColorOffset = 255
  /\ dev[last.i].targetColorOffset = 217

----------------------------------------------------------------------------
(* Properties of the hue wheel, under SpecRing *)

HueFields(d) == {d.colorPosition, d.baseColorOffset, d.targetColorOffset}

\* C22 -- hue ring: colorPosition, baseColorOffset and targetColorOffset of
\* every device are in 0..255, and so is the hue of every message it sends
\* and of its last broadcast, after encoder turns either way, transition
\* steps across the wrap, randomisation and adoption of received messages.
C22_HueRing ==
  \A i \in DOMAIN dev :
    /\ HueFields(dev[i]) \subseteq 0..255
    /\ \A k \in DOMAIN dev[i].sent : dev[i].sent[k].msg.colorOffset \in 0..255
    /\ net[i].msg.colorOffset \in 0..255

\* a device at hue 7 whose encoder went back by 259 has polled it (the sum
\* is -252), holds hue 4 and has broadcast it
C22_Witness ==
  \E i \in DOMAIN dev :
    /\ dev[i].lastPosition = -259
    /\ HueFields(dev[i]) = {4}
    /\ net[i].at > 0
    /\ net[i].msg.colorOffset = 4

\* a device in transition from hue 2 to 250 has stepped across the wrap
C22_WrapStep ==
  \E i \in DOMAIN dev :
    /\ dev[i].baseColorOffset = 255
    /\ dev[i].targetColorOffset = 250

----------------------------------------------------------------------------
(* Properties of the blink machine, under SpecBlink and SpecBlinkLive *)

\* the blink machine is idle at full brightness
BlinkIdle(d) ==
  /\ ~d.isBlinking
  /\ d.blinkState = 0
  /\ d.blinkFadeBrightness_ = FadeOne

\* a blink in progress whose phase is out of range or whose phase ends
\* before it starts
BlinkCorrupted(d) ==
  /\ d.isBlinking
  /\ \/ d.blinkState > 3
     \/ LtU(d.endBlinkMs_, d.startBlinkMs_)

\* C23 -- blink self-healing: one iteration of loop() on an awake device
\* whose blink is in progress with blinkState above 3, or with endBlinkMs_
\* before startBlinkMs_, leaves the machine idle (isBlinking false,
\* blinkState 0), blinkFadeBrightness_ at exactly 1.0 and nextBlinkTime
\* later than the current time.
C23_SelfHealing ==
  [][\A i \in DOMAIN dev :
       ( /\ Looping(i)
         /\ ~dev[i].inSleepMode
         /\ BlinkCorrupted(dev[i]) )
       => /\ BlinkIdle(dev'[i])
          /\ GtU(dev'[i].nextBlinkTime, dev[i].millis)]_vars

\* a blink in its closing phase that ended before it started, at reduced
\* brightness, has been reset by the first iteration
C23_Witness ==
  /\ last.act = "Loop"
  /\ sched.ticks = MaxBlinkTicks
  /\ dev[last.i].startBlinkMs_ = BootMillis + 900
  /\ dev[last.i].endBlinkMs_ = BootMillis + 300
  /\ BlinkIdle(dev[last.i])
  /\ dev[last.i].nextBlinkTime = BootMillis + DefaultDraw.blink

\* C24 -- the blink machine never hangs: on an awake device whose loop()
\* keeps running as time advances, from every combination of values of
\* isBlinking, blinkState, startBlinkMs_, endBlinkMs_ and
\* blinkFadeBrightness_, the machine is eventually idle with
\* blinkFadeBrightness_ 1.0 (within MaxBlinkTicks poll periods).
C24_NeverHangs == <>(\A i \in DOMAIN dev : BlinkIdle(dev[i]))

\* a device that was idle at half brightness has run a whole blink and is
\* idle at full brightness 53 poll periods later
C24_Witness ==
  /\ last.act = "Loop"
  /\ sched.ticks = MaxBlinkTicks - 53
  /\ BlinkIdle(dev[last.i])
  /\ dev[last.i].nextBlinkTime = BootMillis + 53 * BUTTON_POLL_MS + DefaultDraw.blink

----------------------------------------------------------------------------
(* Properties of the blink machine as it runs from setup(), under SpecRun *)

\* C25 -- blink factor range: in every reachable state
\* blinkFadeBrightness_ is at least 0.1 and at most 1.0.
C25_FactorInRange ==
  \A i \in DOMAIN dev :
    /\ dev[i].blinkFadeBrightness_ >= FadeMin
    /\ dev[i].blinkFadeBrightness_ <= FadeOne

\* a device in the hold phase of a blink, its factor at the minimum, has
\* drawn a frame
C25_Witness ==
  /\ last.act = "Loop"
  /\ dev[last.i].isBlinking
  /\ dev[last.i].blinkState = 2
  /\ dev[last.i].blinkFadeBrightness_ = FadeMin
  /\ "setPixelColor" \in dev[last.i].sink

\* maxDrop, in millionths
MaxDrop == FadeOne - FadeMin

\* C26 -- closing fade: an iteration of loop() on an awake device in the
\* closing phase of a blink, its center button up, leaves the factor at
\* 1.0 - maxDrop * (now - phaseStart) / (phaseEnd - phaseStart) if now is
\* before phaseEnd; otherwise it leaves the factor at exactly 1.0 - maxDrop
\* and the machine in the hold phase, which starts now and lasts 50 ms.
C26_ClosingFade ==
  [][\A i \in DOMAIN dev :
       LET d  == dev[i]
           cm == CurrentMillis(i)
       IN  ( /\ Looping(i)
             /\ ~d.inSleepMode
             /\ d.isBlinking
             /\ d.blinkState = 1
             /\ ~env[i].btn[CENTER] )
           => IF cm < d.endBlinkMs_
              THEN /\ dev'[i].isBlinking
                   /\ dev'[i].blinkState = 1
                   /\ dev'[i].blinkFadeBrightness_ =
                        FadeOne - (MaxDrop * (cm - d.startBlinkMs_))
                                    \div (d.endBlinkMs_ - d.startBlinkMs_)
              ELSE /\ dev'[i].isBlinking
                   /\ dev'[i].blinkState = 2
                   /\ dev'[i].blinkFadeBrightness_ = FadeOne - MaxDrop
                   /\ dev'[i].startBlinkMs_ = cm
                   /\ dev'[i].endBlinkMs_ = cm + 50]_vars

\* halfway through the closing phase the factor is 1.0 - maxDrop * 0.5
C26_Witness ==
  /\ last.act = "Loop"
  /\ dev[last.i].isBlinking
  /\ dev[last.i].blinkState = 1
  /\ dev[last.i].millis - last.lag - dev[last.i].startBlinkMs_ = 150
  /\ dev[last.i].endBlinkMs_ - dev[last.i].startBlinkMs_ = 300
  /\ dev[last.i].blinkFadeBrightness_ = FadeOne - MaxDrop \div 2

\* C27 -- blink reset: whenever currentPattern changes (left or right
\* button, center randomize, automatic cycling, adoption of a received
\* message) and whenever the device enters or leaves sleep, the blink
\* machine is idle with blinkFadeBrightness_ 1.0 immediately afterwards.
C27_BlinkResetOnChange ==
  [][\A i \in DOMAIN dev :
       ( \/ dev'[i].currentPattern # dev[i].currentPattern
         \/ dev'[i].inSleepMode # dev[i].inSleepMode )
       => BlinkIdle(dev'[i])]_vars

----------------------------------------------------------------------------
(* Properties of the receive callback, under SpecRecv *)

\* C28 -- the receive callback only updates fields: no run of OnDataRecv
\* calls the pixel sink (setPixelColor, show or setBrightness) or hands a
\* message to esp_now_send.
C28_RecvOnlyUpdatesFields ==
  [][\A i \in DOMAIN dev :
       (last'.act = "Recv" /\ last'.i = i)
       => /\ dev'[i].sink = {}
          /\ dev'[i].sent = << >>]_vars

----------------------------------------------------------------------------
(* Properties of a broadcast that races with the receive callback, under   *)
(* SpecRace                                                                *)

\* C29: in every interleaving of the receive callback with loop(), each
\* message a device broadcasts carries a timestamp, pattern, brightness and
\* hue that the device held together at some moment (a moment in the middle
\* of the callback counted)
C29_ConsistentSnapshot ==
  \A i \in DOMAIN dev :
    \A k \in DOMAIN dev[i].sent : dev[i].sent[k].msg \in dev[i].held

\* a broadcast that carries the timestamp a callback has just adopted with
\* the pattern the device had before
AdoptedTimeOldPattern ==
  \E i \in DOMAIN dev :
    \E k \in DOMAIN dev[i].sent :
      /\ dev[i].sent[k].msg.timestamp = dev[i].incoming.timestamp
      /\ dev[i].recvAt = 0
      /\ dev[i].incoming.pattern = ToU8(dev[i].currentPattern)
      /\ dev[i].sent[k].msg.pattern # dev[i].incoming.pattern

----------------------------------------------------------------------------
(* Properties of the normal-mode cadence next to a peer, under             *)
(* SpecFollowLive                                                          *)

\* one normal interval and the 100 ms window at the second mark, in ticks
FollowWindow == (SYNC_INTERVAL + 100) \div FollowStep

\* every device is awake, in normal mode with its transport up, and its
\* loop() will run for a whole interval and window more
NormalWithTimeLeft ==
  \A i \in DOMAIN dev :
    /\ ~dev[i].inSleepMode
    /\ dev[i].espNowInitialized
    /\ ~dev[i].fastSyncMode
    /\ sched.ticks >= FollowWindow

\* the last iteration of loop() broadcast
HasBroadcast == \A i \in DOMAIN dev : dev[i].sent # << >>

Starved ==
  \E i \in DOMAIN dev :
    /\ sched.msgs = 0
    /\ sched.ticks = 0
    /\ dev[i].lastSyncTime = BootMillis
    /\ ~dev[i].fastSyncMode

\* the same as a bound: an awake device in normal mode with its transport
\* up is never further from its last broadcast than one normal interval,
\* the window at the second mark and one period of loop()
BroadcastGapBounded ==
  \A i \in DOMAIN dev :
    (~dev[i].inSleepMode /\ dev[i].espNowInitialized /\ ~dev[i].fastSyncMode
       /\ dev[i].lastSyncTime # 0)
    => LeU(Sub32(dev[i].millis, dev[i].lastSyncTime), SYNC_INTERVAL + 100 + FollowStep)

----------------------------------------------------------------------------
(* Properties of the broadcast rate, under Spec                            *)

UntouchedSinceBroadcast(i) ==
  /\ LeU(dev[i].lastSyncTime, net[i].at)
  /\ GeU(dev[i].lastSyncTime, Sub32(net[i].at, MaxLag))
  /\ ~PollFinds(dev[i], CurrentMillis(i), env[i])

----------------------------------------------------------------------------
(* Properties of the syncPending guard as time advances, under             *)
(* SpecPendingLive                                                         *)

\* the longest wait for the window to be over, in ticks
PendingWindow == FAST_SYNC_INTERVAL \div FollowStep

\* syncPending is set on every device, no further message will be adopted
\* and loop() will run for a whole window more
PendingWithTimeLeft ==
  \A i \in DOMAIN dev :
    dev[i].syncPending /\ sched.msgs = 0 /\ sched.ticks >= PendingWindow

NotPending == \A i \in DOMAIN dev : ~dev[i].syncPending

\* C32 -- syncPending is never stuck: once an adoption has set it and no
\* further message is adopted, iterations of loop() clear it as time
\* advances, awake and asleep, within FAST_SYNC_INTERVAL: the iteration
\* clears it as soon as, in fast mode, FAST_SYNC_INTERVAL has passed since
\* lastSyncTime or, in normal mode, the millisecond within the logical
\* second is 100 or more; an iteration that starts with it set sends no
\* broadcast.
C32_PendingNeverStuck ==
  /\ PendingWithTimeLeft ~> NotPending
  /\ [][\A i \in DOMAIN dev :
          Looping(i) /\ dev[i].syncPending =>
            /\ dev'[i].sent = << >>
            /\ PendingWindowOver(i) => ~dev'[i].syncPending]_vars

\* a sleeping device in normal mode that adopted a message has had
\* syncPending cleared by the iteration of loop() at 100 ms into its
\* logical second
C32_Witness ==
  /\ last.act = "Loop"
  /\ dev[last.i].inSleepMode /\ ~dev[last.i].fastSyncMode
  /\ dev[last.i].heard # NoMsg
  /\ ~dev[last.i].syncPending
  /\ ModU(LogicalMs(dev[last.i], dev[last.i].millis), 1000) = 100

----------------------------------------------------------------------------
(* Properties of the order of the blink phases, under SpecRun              *)

\* the phase of the blink machine between iterations of loop(): 0 idle,
\* 1 closing, 2 hold, 3 opening (blinkState is what handleEyeBlink left)
BlinkPhase(d) == IF d.isBlinking THEN d.blinkState ELSE 0

\* C33 -- blink phase order: an iteration of loop() leaves the blink machine
\* in the phase it was in, moves it to the next of idle, closing, hold,
\* opening, idle, or resets it to idle.  It leaves idle only with
\* currentMillis >= nextBlinkTime, and then startBlinkMs_ = currentMillis,
\* endBlinkMs_ = currentMillis + 300 and blinkFadeBrightness_ = 1.0; it
\* enters idle, from opening as from any phase, with blinkFadeBrightness_ =
\* 1.0 and nextBlinkTime later than currentMillis.
C33_BlinkPhaseOrder ==
  [][\A i \in DOMAIN dev :
       Looping(i) =>
         LET p  == BlinkPhase(dev[i])
             q  == BlinkPhase(dev'[i])
             cm == CurrentMillis(i)
         IN  /\ q \in {p, (p + 1) % 4, 0}
             /\ (p = 0 /\ q = 1) =>
                  /\ GeU(cm, dev[i].nextBlinkTime)
                  /\ dev'[i].startBlinkMs_ = cm
                  /\ dev'[i].endBlinkMs_ = Add32(cm, 300)
                  /\ dev'[i].blinkFadeBrightness_ = FadeOne
             /\ (p # 0 /\ q = 0) =>
                  /\ dev'[i].blinkFadeBrightness_ = FadeOne
                  /\ GtU(dev'[i].nextBlinkTime, cm)]_vars

\* a blink has run through closing, hold and opening and has just ended:
\* the machine is idle at full brightness and the next blink is scheduled
C33_Witness ==
  /\ last.act = "Loop"
  /\ BlinkIdle(dev[last.i])
  /\ dev[last.i].startBlinkMs_ = BootMillis + DefaultDraw.blink + 350
  /\ dev[last.i].nextBlinkTime = BootMillis + 2 * DefaultDraw.blink + 650

----------------------------------------------------------------------------
(* Properties of the hue transition run to its end, under SpecGlideLive    *)

HueConverged == \A i \in DOMAIN dev : dev[i].baseColorOffset = dev[i].targetColorOffset

\* C34 -- the hue transition terminates and is then stable: with
\* syncPending false and the target unchanged, every run of the transition
\* GlideStep ms after the last leaves baseColorOffset strictly nearer to
\* targetColorOffset around the wheel while they differ (so it never
\* overshoots and never moves away), baseColorOffset reaches
\* targetColorOffset (within MaxGlideTicks runs), and once they are equal
\* every run leaves baseColorOffset unchanged.
C34_TransitionTerminates ==
  /\ <>HueConverged
  /\ [][\A i \in DOMAIN dev :
          Transitioning(i) =>
            LET b == dev[i].baseColorOffset
                t == dev[i].targetColorOffset
            IN  /\ dev'[i].targetColorOffset = t
                /\ dev'[i].baseColorOffset \in Hues
                /\ IF b = t
                   THEN dev'[i].baseColorOffset = b
                   ELSE CircularDistance(dev'[i].baseColorOffset, t)
                          < CircularDistance(b, t)]_vars

\* the transition from hue 0 to hue 128, the longest there is, has just
\* arrived with its 65th run, the snap that follows 64 steps
C34_Witness ==
  /\ last.act = "Transition"
  /\ HueConverged
  /\ dev[last.i].targetColorOffset = 128
  /\ dev[last.i].lastColorTransition = BootMillis + 63 * GlideStep
  /\ sched.ticks = MaxGlideTicks - 64

----------------------------------------------------------------------------
(* Properties of the broadcast that follows an encoder turn, under Spec    *)

\* the poll of the iteration of loop() being taken on device i finds the
\* encoder turned, more than ENCODER_THROTTLE_MS after the last turn that
\* advanced the clock
PollsPromotingTurn(i) ==
  /\ Polling(i)
  /\ Turned(i)
  /\ GtU(Sub32(dev[i].millis, dev[i].lastEncoderUpdate), ENCODER_THROTTLE_MS)

\* C35 -- after an encoder turn that advances the logical clock the change
\* is not broadcast at once: on a device that has broadcast before, the
\* iteration of loop() that polls the turn sends no broadcast (the
\* broadcast follows about 100 ms later).
C35_TurnBroadcastDeferred ==
  [][\A i \in DOMAIN dev :
       PollsPromotingTurn(i) /\ net[i].at > 0 => dev'[i].sent = << >>]_vars

----------------------------------------------------------------------------
(* Properties of the logical clock, under SpecRecv                         *)

\* the logical time of device d in ms, lines 117 and 484
LogicalTime(d) == LogicalMs(d, d.millis)

\* the step being taken keeps device i's logical time within the uint32
\* range: the time that passes does not carry it past 2^32 - 1 ms, the
\* timestamp adopted is at most MaxLogicalSeconds, and the seconds added by
\* local changes do not lead past MaxLogicalSeconds
StaysInRange(i) ==
  /\ LeU(LogicalTime(dev[i]), Sub32(-1, Sub32(dev'[i].millis, dev[i].millis)))
  /\ RecvNewer(i) => LeU(dev'[i].heard.timestamp, MaxLogicalSeconds)
  /\ Polling(i) =>
       /\ LogicalNow(dev[i], dev[i].millis) >= 0
       /\ LogicalNow(dev[i], dev[i].millis) + PROMOTE_SECONDS * Promotions(i)
            <= MaxLogicalSeconds

\* C36 -- logical clock monotonicity: as long as it stays within the uint32
\* range, a device's logical time millis() - bootTime never decreases: no
\* step (time passing, an iteration of loop(), a received message) leaves
\* it smaller than it was, and the adoption of a received message and an
\* iteration of loop() that polls a local change which advances the clock
\* leave it strictly greater.
C36_ClockMonotone ==
  [][\A i \in DOMAIN dev :
       StaysInRange(i) =>
         /\ LeU(LogicalTime(dev[i]), LogicalTime(dev'[i]))
         /\ (RecvNewer(i) \/ (Polling(i) /\ Promotions(i) > 0))
              => LtU(LogicalTime(dev[i]), LogicalTime(dev'[i]))]_vars

\* a device has adopted a message one second ahead of its logical time
\* after its clock was advanced by a press of the center button
C36_Witness ==
  /\ HeardNewer(last.i)
  /\ dev[last.i].heard.timestamp = PROMOTE_SECONDS + 1
  /\ LogicalTime(dev[last.i]) = (PROMOTE_SECONDS + 1) * 1000 + ADOPT_DELAY_MS

----------------------------------------------------------------------------
(* Properties of the three hue fields                                      *)

\* colorPosition, baseColorOffset and targetColorOffset of d are equal
HueTogether(d) ==
  /\ d.baseColorOffset = d.targetColorOffset
  /\ d.targetColorOffset = d.colorPosition

\* the stepped branch of the hue transition (lines 580-614), the only
\* writer of lastColorTransition, has never run on d
NeverStepped(d) == d.lastColorTransition = 0

\* where the receive callback only runs between two iterations of loop()
\* (Spec, SpecRecv, SpecNet), the three hue fields are equal in every state
\* and the stepped branch never runs
HueFieldsTogether ==
  \A i \in DOMAIN dev : HueTogether(dev[i]) /\ NeverStepped(dev[i])

\* C37 -- hue fields move together: whenever the receive callback is not in
\* the middle of a message, baseColorOffset, targetColorOffset and
\* colorPosition of a device are equal, and the stepped branch of the hue
\* transition of loop() has never run.
C37_HueFieldsMoveTogether ==
  \A i \in DOMAIN dev :
    /\ dev[i].recvAt = 0 => HueTogether(dev[i])
    /\ NeverStepped(dev[i])

----------------------------------------------------------------------------
(* Properties of one press of the center button, under SpecHold            *)

\* C38 -- one sleep-state transition per press: while the center button is
\* held, a device whose sleep state differs from the one it had just before
\* the press (the press has caused one transition between Awake and Asleep)
\* keeps that state in every iteration of loop(); in particular a device
\* woken by the press is not put back to sleep, however long the button is
\* held.
C38_OneTransitionPerPress ==
  [][\A i \in DOMAIN dev :
       Looping(i) /\ env[i].btn[CENTER]
         /\ dev[i].inSleepMode # dev[i].before.asleep
         => dev'[i].inSleepMode = dev[i].inSleepMode]_vars

\* C39 -- going to sleep does not disturb the shared state: when a long
\* press puts an awake device (one that had drawn its first frame before
\* the press) to sleep, its pattern, hue, brightness and logical clock are
\* the ones it had just before the button was pressed, and it is in fast
\* mode only if it was then.
C39_SleepKeepsSharedState ==
  [][\A i \in DOMAIN dev :
       Looping(i) /\ ~dev[i].inSleepMode /\ dev'[i].inSleepMode
         /\ dev[i].before.drawn
         => Shared(dev'[i]) = dev[i].before.shared]_vars

----------------------------------------------------------------------------
(* Properties of the spacing of reinitialisations, under SpecFault         *)

\* the send of device i's previous iteration of loop(), if it made one
SentBefore(i) == dev[i].sent # << >>

Previous(i) == dev[i].sent[1]

\* C40 as claimed -- reinitialisation attempts are spaced: the send that
\* follows a send with a reinitialisation attempt (successful or failed) is
\* at most the first failure since that attempt, fewer than 5, and attempts
\* no reinitialisation.
C40_ReinitAttemptsSpaced ==
  [][\A i \in DOMAIN dev :
       Broadcasts(i) /\ SentBefore(i) /\ Previous(i).reinit # "none"
         => Sending(i).reinit = "none"]_vars

\* C40 -- after a reinitialisation that succeeded the next attempt is made
\* only on the 5th failure in a row since; after one that failed the very
\* next send that fails attempts another (up to the 255th failure in a
\* row).
C40_ReinitSpacedAfterSuccess ==
  [][\A i \in DOMAIN dev :
       Broadcasts(i) /\ SentBefore(i) =>
         /\ Previous(i).reinit = "ok" =>
              dev[i].streak = 0 /\ Sending(i).reinit = "none"
         /\ Previous(i).reinit # "failed" /\ Sending(i).reinit # "none" =>
              dev[i].streak + 1 = MAX_SEND_ERRORS
         /\ Previous(i).reinit = "failed" /\ ~Sending(i).ok /\ dev[i].streak + 1 < 256 =>
              Sending(i).reinit # "none"]_vars

\* the send after a reinitialisation that succeeded has failed, the 6th
\* failure since the last successful send and the first since the
\* reinitialisation, and has attempted none
C40_Witness ==
  /\ last.act = "Loop"
  /\ dev[last.i].sent # << >>
  /\ ~dev[last.i].sent[1].ok
  /\ dev[last.i].sent[1].reinit = "none"
  /\ dev[last.i].failures = MAX_SEND_ERRORS + 1
  /\ dev[last.i].streak = 1

====
